---- MODULE Spec2Model ----
(***************************************************************************)
(* A model of github.com/matthewpi/streamdeck: the Controller (StreamDeck) *)
(* with its target brightness, sleep flag and press-dispatch loop, the     *)
(* Device's SetButton with the image packet framing of each generation,    *)
(* the hid.USB transport (Open, Close, transfers) used by concurrent       *)
(* goroutines, and the input-polling loop feeding the dispatch loop.       *)
(***************************************************************************)
EXTENDS Integers, Sequences, FiniteSets, TLC

(***************************************************************************)
(* Bounds of the model.                                                    *)
(***************************************************************************)
\* Press indices delivered to the dispatch loop are drawn from 0..MaxPressIndex.
MaxPressIndex == 1

\* Images passed to SetButton fill up to MaxPages packets and one byte more.
MaxPages == 3

(***************************************************************************)
(* Program constants.                                                      *)
(***************************************************************************)
BrightnessMin == 0
BrightnessFull == 100

\* Values passed to StreamDeck.SetBrightness (a uint32), up to the largest
\* integer the checker represents.
BrightnessInputs == {0, 40, 101, 2147483647}

\* The press handlers an application may register; NoHandler is Go's nil.
Handlers == {"h1", "h2"}
NoHandler == "nil"

\* Goroutines that call into the Controller: the application and the
\* dispatch loop (buttonCallbackListener).
Apps == {"app"}
Dispatch == "disp"

\* Application goroutines that call without waiting for each other.
RaceApps == {"app", "app2"}

Threads == Apps \cup RaceApps \cup {Dispatch}

\* applied before any brightness packet reached the Device.
NoPacket == 0 - 1

\* Goroutines that call into one hid.USB handle.
UsbThreads == {"u1", "u2"}

VARIABLES
    constructed,      \* NewFromDevice has returned the StreamDeck
    brightness,       \* StreamDeck.brightness (the target brightness)
    isSleeping,       \* StreamDeck.isSleeping
    pressHandler,     \* StreamDeck.pressHandler
    applied,          \* brightness of the last packet the Device accepted
    pc,               \* position of each goroutine
    frame,            \* parameters, locals and result of each goroutine's call
    disp,             \* locals of the dispatch loop's current iteration
    targetSetAsleep   \* the target was stored by a SetBrightness that skipped the Device

ctlVars == <<constructed, brightness, isSleeping, pressHandler, applied, pc,
             frame, disp, targetSetAsleep>>

VARIABLES
    devType,          \* the Device's DeviceType (a row of deviceTypes)
    btnIndex,         \* SetButton's btnIndex
    rawNil,           \* SetButton's rawImage was nil
    buffer,           \* the image being transferred (rawImage, or the blank image)
    payload,          \* the packet buffer of the image texture function
    page,             \* its page counter
    bytesRemaining,   \* its count of bytes not yet sent
    written,          \* the packets the write function accepted, in write order
    attempts,         \* the number of calls of the write function
    imgPc,            \* "idle", "loop" (inside the texture function) or "done"
    imgRet            \* what SetButton returned

imgVars == <<devType, btnIndex, rawNil, buffer, payload, page, bytesRemaining,
             written, attempts, imgPc, imgRet>>

VARIABLES
    uf,               \* USB.f: NilFile or the descriptor of the open file
    openFds,          \* the descriptors the process holds open
    fMx,              \* the goroutine holding USB.fMx for writing
    endpointOut,      \* USB.endpointOut
    upc,              \* position of each goroutine calling into the handle
    uframe,           \* parameters, locals and result of each goroutine's call
    lastSys,          \* the ioctl syscall the last step issued, if any
    deviceClosed      \* Device.Close closed the file and returned nil, no Open since

usbVars == <<uf, openFds, fMx, endpointOut, upc, uframe, lastSys,
             deviceClosed>>

VARIABLES
    cancelCalled,     \* StreamDeck.cancel was called: the loops' context is done
    pollDev,          \* the DeviceType of the polled Device (a row of deviceTypes)
    pollPc,           \* position of buttonPressListener
    poll,             \* its locals: the report buffer states and the index i
    pollRet,          \* what buttonPressListener returned
    got,              \* the indices the dispatch loop received from the report being scanned
    handlerErred,     \* a press handler returned an error
    invokedAfterErr,  \* a press handler was invoked after one had returned an error
    lastRead          \* what the last d.fd.Read of this iteration returned

loopVars == <<cancelCalled, pollDev, pollPc, poll, pollRet, got, handlerErred,
              invokedAfterErr, lastRead>>

VARIABLES
    wPath,            \* Device's path, as its components
    wBytes,           \* the bytes os.ReadFile returned
    rBuf,             \* the unread bytes of the buffer r
    filter,           \* the descriptor types whose filter entry is true
    desc,             \* the deviceDesc captured from the Device record
    device,           \* the local device: NilUSB or the USB under construction
    wPc,              \* "off", "loop" (inside the for loop) or "done"
    wRet              \* what Device returned: the USB (or NilUSB) and the error

walkVars == <<wPath, wBytes, rBuf, filter, desc, device, wPc, wRet>>

VARIABLES
    found,            \* what hid.Devices returned to open
    oPc,              \* position of OpenPath
    oDev,             \* the Device open built: its hid device and DeviceType row
    oOpened,          \* the hid device open called Open on, 0 for none
    oRet              \* what OpenPath returned

openVars == <<found, oPc, oDev, oOpened, oRet>>

VARIABLES
    seen              \* the outcomes of overlapping calls observed so far

raceVars == <<seen>>

VARIABLES
    eTree,            \* the file tree Devices was called on
    eCall,            \* the entry and path of the Devices call being entered
    eStack,           \* the frames of devices, innermost last
    eRetv,            \* the values being returned to the caller's frame
    ePc,              \* "off", "call", "loop", "ret" or "done"
    eRet              \* what the outermost Devices returned

enumVars == <<eTree, eCall, eStack, eRetv, ePc, eRet>>

VARIABLES
    pvProvider,       \* the Device's DeviceProvider
    pvIndex,          \* SetButton's btnIndex
    pvLen,            \* len(rawImage), after the blank image took nil's place
    pvRemaining,      \* SetButton's bytesRemaining
    pvPage,           \* SetButton's pageNumber
    pvSent,           \* the packets fd.Write accepted, in write order
    pvPc,             \* "idle", "loop" or "done"
    pvRet             \* what SetButton returned

provVars == <<pvProvider, pvIndex, pvLen, pvRemaining, pvPage, pvSent, pvPc,
              pvRet>>

VARIABLES
    hReaders,         \* the goroutines holding USB.fMx for reading
    hWriter,          \* the goroutine holding USB.fMx for writing
    hPending,         \* a goroutine waits in fMx.Lock()
    hFile,            \* USB.f != nil
    hCancel,          \* s.cancel() was called
    hPoll,            \* position of the polling loop, and its read's result
    hClose            \* position of StreamDeck.Close, its ctx and its result

holdVars == <<hReaders, hWriter, hPending, hFile, hCancel, hPoll, hClose>>

extraVars == <<enumVars, provVars, holdVars>>

otherVars == <<walkVars, openVars, raceVars, extraVars>>

vars == <<ctlVars, imgVars, usbVars, loopVars, otherVars>>

\* The variables each component leaves alone.
nonCtlVars == <<imgVars, usbVars, loopVars, otherVars>>
nonImgVars == <<ctlVars, usbVars, loopVars, otherVars>>
nonUsbVars == <<ctlVars, imgVars, loopVars, otherVars>>
nonLoopVars == <<imgVars, usbVars, otherVars>>

(***************************************************************************)
(* Controller: src/streamdeck.go                                           *)
(***************************************************************************)
\* Positions inside SetBrightness, SetSleeping and ToggleSleep.
CallPcs == {"sb_apply", "sb_store", "ss_load", "ss_apply", "ss_store", "ts_ret"}

\* ReturnPc without the dispatch loop's `continue` after the wake-up call.
ReturnPc_NoContinue(t) == IF t = Dispatch THEN "d_invoke" ELSE "idle"

\* The position a goroutine returns to when its call returns.
ReturnPc(t) == IF t = Dispatch THEN "recv" ELSE "idle"

NoFrame ==
    [op |-> "none", in |-> 0, brightness |-> 0, sleeping |-> FALSE,
     xfer |-> "none", ret |-> "none", retSleeping |-> FALSE]

NoDisp ==
    [index |-> 0, handler |-> NoHandler, slept |-> "none", calls |-> <<>>,
     prevWoke |-> FALSE]

\* A call begins: its parameters.
Enter(op, in, sleeping) ==
    [NoFrame EXCEPT !.op = op, !.in = in, !.brightness = in, !.sleeping = sleeping]

\* The call of t returns ret; its locals go out of scope.
Return(t, xfer, ret) ==
    /\ frame' = [frame EXCEPT ![t].xfer = xfer, ![t].ret = ret, ![t].brightness = 0]
    /\ pc' = [pc EXCEPT ![t] = ReturnPc(t)]

\* Calls are issued one at a time: no other goroutine is inside a call.
OneAtATime(t) == \A u \in Threads \ {t} : pc[u] \notin CallPcs

Init ==
    /\ constructed = FALSE
    /\ brightness = 0
    /\ isSleeping = FALSE
    /\ pressHandler = NoHandler
    /\ applied = NoPacket
    /\ pc = [t \in Threads |-> IF t = Dispatch THEN "off" ELSE "idle"]
    /\ frame = [t \in Threads |-> NoFrame]
    /\ disp = NoDisp
    /\ targetSetAsleep = FALSE

\* NewFromDevice: brightness.Store(BrightnessFull) and start the loops.
NewFromDevice ==
    /\ ~constructed
    /\ constructed' = TRUE
    /\ brightness' = BrightnessFull
    /\ pc' = [pc EXCEPT ![Dispatch] = "recv"]
    /\ UNCHANGED <<isSleeping, pressHandler, applied, frame, disp,
                   targetSetAsleep>>

\* Device.SetBrightness: one brightness packet carrying byte(b); the
\* transfer succeeds (ok) or fails and leaves the Device as it was.
DeviceSetBrightness(b, ok) ==
    applied' = IF ok THEN b % 256 ELSE applied

\* Clamp without the upper limit.
Clamp_NoUpper(b) == IF b < BrightnessMin THEN BrightnessMin ELSE b

\* The clamp at the head of SetBrightness.
Clamp(b) ==
    LET b1 == IF b < BrightnessMin THEN BrightnessMin ELSE b
    IN  IF b1 > BrightnessFull THEN BrightnessFull ELSE b1

\* SetBrightness without the IsSleeping check: the Device is always updated.
SetBrightness_AlwaysApply(t, v) ==
    /\ constructed
    /\ pc[t] = "idle"
    /\ frame' = [frame EXCEPT ![t] =
                    [Enter("SetBrightness", v, FALSE) EXCEPT !.brightness = Clamp(v)]]
    /\ pc' = [pc EXCEPT ![t] = "sb_apply"]
    /\ UNCHANGED <<constructed, brightness, isSleeping, pressHandler, applied,
                   disp, targetSetAsleep>>

\* SetBrightness, up to the IsSleeping check.
SetBrightness(t, v) ==
    /\ constructed
    /\ pc[t] = "idle"
    /\ frame' = [frame EXCEPT ![t] =
                    [Enter("SetBrightness", v, FALSE) EXCEPT !.brightness = Clamp(v)]]
    /\ pc' = [pc EXCEPT ![t] = IF ~isSleeping THEN "sb_apply" ELSE "sb_store"]
    /\ UNCHANGED <<constructed, brightness, isSleeping, pressHandler, applied,
                   disp, targetSetAsleep>>

\* SetBrightness that persists the target before it looks at the error.
SetBrightnessApply_StoreFirst(t) ==
    /\ pc[t] = "sb_apply"
    /\ brightness' = frame[t].brightness
    /\ \E ok \in BOOLEAN :
        /\ DeviceSetBrightness(frame[t].brightness, ok)
        /\ IF ok
           THEN /\ frame' = [frame EXCEPT ![t].xfer = "ok"]
                /\ pc' = [pc EXCEPT ![t] = "sb_store"]
           ELSE Return(t, "fail", "err")
    /\ UNCHANGED <<constructed, isSleeping, pressHandler, disp, targetSetAsleep>>

\* SetBrightness: s.setBrightness(ctx, brightness) while not sleeping.
SetBrightnessApply(t) ==
    /\ pc[t] = "sb_apply"
    /\ \E ok \in BOOLEAN :
        /\ DeviceSetBrightness(frame[t].brightness, ok)
        /\ IF ok
           THEN /\ frame' = [frame EXCEPT ![t].xfer = "ok"]
                /\ pc' = [pc EXCEPT ![t] = "sb_store"]
           ELSE Return(t, "fail", "err")
    /\ UNCHANGED <<constructed, brightness, isSleeping, pressHandler, disp,
                   targetSetAsleep>>

\* SetBrightness: s.brightness.Store(brightness); return nil.
SetBrightnessStore(t) ==
    /\ pc[t] = "sb_store"
    /\ brightness' = frame[t].brightness
    /\ targetSetAsleep' = (frame[t].xfer = "none")
    /\ Return(t, frame[t].xfer, "nil")
    /\ UNCHANGED <<constructed, isSleeping, pressHandler, applied, disp>>

\* SetSleeping: newBrightness := s.Brightness(), BrightnessMin when sleeping.
SetSleepingLoad(t) ==
    /\ frame' = [frame EXCEPT ![t].brightness =
                    IF frame[t].sleeping THEN BrightnessMin ELSE brightness]
    /\ pc' = [pc EXCEPT ![t] = "ss_apply"]

\* SetSleeping that wakes to full brightness instead of the persisted target.
SetSleeping_WakeFull(t, s) ==
    /\ constructed
    /\ pc[t] = "idle"
    /\ frame' = [frame EXCEPT ![t] =
                    [Enter("SetSleeping", 0, s) EXCEPT !.brightness =
                        IF s THEN BrightnessMin ELSE BrightnessFull]]
    /\ pc' = [pc EXCEPT ![t] = "ss_apply"]
    /\ UNCHANGED <<constructed, brightness, isSleeping, pressHandler, applied,
                   disp, targetSetAsleep>>

\* SetSleeping called by the application.
SetSleeping(t, s) ==
    /\ constructed
    /\ pc[t] = "idle"
    /\ frame' = [frame EXCEPT ![t] =
                    [Enter("SetSleeping", 0, s) EXCEPT !.brightness =
                        IF s THEN BrightnessMin ELSE brightness]]
    /\ pc' = [pc EXCEPT ![t] = "ss_apply"]
    /\ UNCHANGED <<constructed, brightness, isSleeping, pressHandler, applied,
                   disp, targetSetAsleep>>

\* ToggleSleep: the argument of its SetSleeping call is !s.IsSleeping().
ToggleSleep(t) ==
    /\ constructed
    /\ pc[t] = "idle"
    /\ frame' = [frame EXCEPT ![t] = Enter("ToggleSleep", 0, ~isSleeping)]
    /\ pc' = [pc EXCEPT ![t] = "ss_load"]
    /\ UNCHANGED <<constructed, brightness, isSleeping, pressHandler, applied,
                   disp, targetSetAsleep>>

\* ToggleSleep: the head of its SetSleeping call.
ToggleSleepLoad(t) ==
    /\ pc[t] = "ss_load"
    /\ SetSleepingLoad(t)
    /\ UNCHANGED <<constructed, brightness, isSleeping, pressHandler, applied,
                   disp, targetSetAsleep>>

\* SetSleepingApply that stores the flag whether or not the transfer succeeded.
SetSleepingApply_StoreAnyway(t) ==
    /\ pc[t] = "ss_apply"
    /\ \E ok \in BOOLEAN :
        /\ DeviceSetBrightness(frame[t].brightness, ok)
        /\ isSleeping' = frame[t].sleeping
        /\ IF ok
           THEN Return(t, "ok", "nil")
           ELSE Return(t, "fail", "err")
    /\ UNCHANGED <<constructed, brightness, pressHandler, disp, targetSetAsleep>>

\* SetSleeping: s.setBrightness(ctx, newBrightness); an error is returned.
SetSleepingApply(t) ==
    /\ pc[t] = "ss_apply"
    /\ \E ok \in BOOLEAN :
        /\ DeviceSetBrightness(frame[t].brightness, ok)
        /\ IF ok
           THEN /\ frame' = [frame EXCEPT ![t].xfer = "ok"]
                /\ pc' = [pc EXCEPT ![t] = "ss_store"]
           ELSE Return(t, "fail", "err")
    /\ UNCHANGED <<constructed, brightness, isSleeping, pressHandler, disp,
                   targetSetAsleep>>

\* SetSleepingStore that also persists the applied brightness as the target.
SetSleepingStore_Collapse(t) ==
    /\ pc[t] = "ss_store"
    /\ isSleeping' = frame[t].sleeping
    /\ brightness' = frame[t].brightness
    /\ IF frame[t].op = "ToggleSleep"
       THEN /\ frame' = frame
            /\ pc' = [pc EXCEPT ![t] = "ts_ret"]
       ELSE Return(t, frame[t].xfer, "nil")
    /\ UNCHANGED <<constructed, pressHandler, applied, disp, targetSetAsleep>>

\* SetSleeping: s.isSleeping.Store(sleeping); return nil.
SetSleepingStore(t) ==
    /\ pc[t] = "ss_store"
    /\ isSleeping' = frame[t].sleeping
    /\ IF frame[t].op = "ToggleSleep"
       THEN /\ frame' = frame
            /\ pc' = [pc EXCEPT ![t] = "ts_ret"]
       ELSE Return(t, frame[t].xfer, "nil")
    /\ UNCHANGED <<constructed, brightness, pressHandler, applied, disp,
                   targetSetAsleep>>

\* ToggleSleep: return s.IsSleeping(), nil.
ToggleSleepReturn(t) ==
    /\ pc[t] = "ts_ret"
    /\ frame' = [frame EXCEPT ![t].ret = "nil", ![t].retSleeping = isSleeping,
                               ![t].brightness = 0]
    /\ pc' = [pc EXCEPT ![t] = ReturnPc(t)]
    /\ UNCHANGED <<constructed, brightness, isSleeping, pressHandler, applied,
                   disp, targetSetAsleep>>

\* SetHandler: s.pressHandler = fn under pressHandlerMx.
SetHandler(fn) ==
    /\ constructed
    /\ pressHandler' = fn
    /\ UNCHANGED <<constructed, brightness, isSleeping, applied, pc, frame,
                   disp, targetSetAsleep>>

\* buttonCallbackListener: index := <-s.ch.
DispatchReceive(index) ==
    /\ pc[Dispatch] = "recv"
    /\ disp' = [NoDisp EXCEPT !.index = index,
                              !.prevWoke = (disp.slept = "yes"
                                            /\ frame[Dispatch].xfer = "ok")]
    /\ pc' = [pc EXCEPT ![Dispatch] = "d_handler"]
    /\ UNCHANGED <<constructed, brightness, isSleeping, pressHandler, applied,
                   frame, targetSetAsleep>>

\* A dispatch loop that never reads s.pressHandler.
DispatchLoadHandler_Stale ==
    /\ pc[Dispatch] = "d_handler"
    /\ pc' = [pc EXCEPT ![Dispatch] = "d_check"]
    /\ UNCHANGED <<constructed, brightness, isSleeping, pressHandler, applied,
                   frame, disp, targetSetAsleep>>

\* buttonCallbackListener: pressHandler := s.pressHandler under the mutex.
DispatchLoadHandler ==
    /\ pc[Dispatch] = "d_handler"
    /\ disp' = [disp EXCEPT !.handler = pressHandler]
    /\ pc' = [pc EXCEPT ![Dispatch] = "d_check"]
    /\ UNCHANGED <<constructed, brightness, isSleeping, pressHandler, applied,
                   frame, targetSetAsleep>>

\* buttonCallbackListener: if s.IsSleeping() ...; if pressHandler == nil ...
DispatchCheck ==
    /\ pc[Dispatch] = "d_check"
    /\ disp' = [disp EXCEPT !.slept = IF isSleeping THEN "yes" ELSE "no"]
    /\ pc' = [pc EXCEPT ![Dispatch] =
                IF isSleeping THEN "d_wake"
                ELSE IF disp.handler = NoHandler THEN "recv" ELSE "d_invoke"]
    /\ UNCHANGED <<constructed, brightness, isSleeping, pressHandler, applied,
                   frame, targetSetAsleep>>

\* buttonCallbackListener: _ = s.SetSleeping(ctx, false); continue.
DispatchWake ==
    /\ pc[Dispatch] = "d_wake"
    /\ frame' = [frame EXCEPT ![Dispatch] =
                    [Enter("SetSleeping", 0, FALSE) EXCEPT
                        !.brightness = brightness]]
    /\ pc' = [pc EXCEPT ![Dispatch] = "ss_apply"]
    /\ UNCHANGED <<constructed, brightness, isSleeping, pressHandler, applied,
                   disp, targetSetAsleep>>

\* buttonCallbackListener: _ = pressHandler(ctx, index).
DispatchInvoke ==
    /\ pc[Dispatch] = "d_invoke"
    /\ disp' = [disp EXCEPT !.calls = Append(disp.calls, <<disp.handler, disp.index>>)]
    /\ pc' = [pc EXCEPT ![Dispatch] = "recv"]
    /\ UNCHANGED <<constructed, brightness, isSleeping, pressHandler, applied,
                   frame, targetSetAsleep>>

(***************************************************************************)
(* Device types: src/unnamed/part_002 and src/device_original_mk2.go       *)
(***************************************************************************)
\* deviceTypes, with the fields SetButton and the texture functions read.
deviceTypes == <<
    [Name |-> "Stream Deck",      ProductID |-> 96,  Rows |-> 3, Cols |-> 5,
     ButtonOffset |-> 1, ImageTextureFunc |-> "imageTextureGen1"],
    [Name |-> "Stream Deck MK.2", ProductID |-> 109, Rows |-> 3, Cols |-> 5,
     ButtonOffset |-> 4, ImageTextureFunc |-> "imageTextureGen2"],
    [Name |-> "Stream Deck Mini", ProductID |-> 99,  Rows |-> 2, Cols |-> 3,
     ButtonOffset |-> 1, ImageTextureFunc |-> "imageTextureMini"],
    [Name |-> "Stream Deck Mini", ProductID |-> 144, Rows |-> 2, Cols |-> 3,
     ButtonOffset |-> 1, ImageTextureFunc |-> "imageTextureMini"],
    [Name |-> "Stream Deck XL",   ProductID |-> 108, Rows |-> 4, Cols |-> 8,
     ButtonOffset |-> 4, ImageTextureFunc |-> "imageTextureGen2"],
    [Name |-> "Stream Deck XL",   ProductID |-> 143, Rows |-> 4, Cols |-> 8,
     ButtonOffset |-> 4, ImageTextureFunc |-> "imageTextureGen2"],
    [Name |-> "Stream Deck Plus", ProductID |-> 132, Rows |-> 4, Cols |-> 2,
     ButtonOffset |-> 4, ImageTextureFunc |-> "imageTextureGen2"] >>

\* DeviceType.ButtonCount.
ButtonCount(t) == t.Rows * t.Cols

\* packageSize and headerSize of the texture functions.
gen1PackageSize == 8191
miniPackageSize == 1024
gen2PackageSize == 1024
oldSharedHeaderSize == 16
gen2HeaderSize == 8

PackageSize(fn) ==
    CASE fn = "imageTextureGen1" -> gen1PackageSize
      [] fn = "imageTextureMini" -> miniPackageSize
      [] fn = "imageTextureGen2" -> gen2PackageSize

HeaderSize(fn) ==
    IF fn = "imageTextureGen2" THEN gen2HeaderSize ELSE oldSharedHeaderSize

\* payloadSize := packageSize - headerSize.
PayloadSize(fn) == PackageSize(fn) - HeaderSize(fn)

min(x, y) == IF x < y THEN x ELSE y
max(x, y) == IF x > y THEN x ELSE y

\* Byte i (Go's index, from 0) of make([]byte, packageSize) after the header
\* bytes set before the loop.
InitByte(fn, button, i) ==
    IF fn = "imageTextureGen2"
    THEN CASE i = 0 -> 2
           [] i = 1 -> 7
           [] i = 2 -> button
           [] OTHER -> 0
    ELSE CASE i = 0 -> 2
           [] i = 1 -> 1
           [] i = 3 -> 0
           [] i = 5 -> (button + 1) % 256
           [] OTHER -> 0

InitPayload(fn, button) ==
    [k \in 1..PackageSize(fn) |-> InitByte(fn, button, k - 1)]

\* Byte i of the payload after the header bytes set in an iteration of the
\* loop; v is the byte before.
SetHeader(fn, i, pg, chunkSize, remaining, v) ==
    LET last == IF chunkSize = remaining THEN 1 ELSE 0
    IN  IF fn = "imageTextureGen2"
        THEN CASE i = 3 -> last
               [] i = 4 -> chunkSize % 256
               [] i = 5 -> (chunkSize \div 256) % 256
               [] i = 6 -> pg % 256
               [] i = 7 -> (pg \div 256) % 256
               [] OTHER -> v
        ELSE CASE i = 2 -> pg % 256
               [] i = 4 -> last
               [] OTHER -> v

\* Byte i of the payload after
\* copy(payload[headerSize:], buffer[bytesSent:(bytesSent+chunkSize)]).
CopyChunk(i, headerSize, buf, bytesSent, chunkSize, v) ==
    IF i >= headerSize /\ i < headerSize + chunkSize
    THEN buf[bytesSent + (i - headerSize) + 1]
    ELSE v

\* ZeroPadding left out: the tail of the packet keeps the previous page.
ZeroPadding_Stale(i, packageSize, paddingSize, v) == v

\* Byte i of the payload after the rest of it is zeroed when the chunk does
\* not fill it.
ZeroPadding(i, packageSize, paddingSize, v) ==
    IF paddingSize > 0 /\ i >= packageSize - paddingSize /\ i < packageSize
    THEN 0
    ELSE v

\* The packet one iteration of the loop hands to the write function: the
\* payload p after the header bytes, the copy and the padding.
Packet(fn, p, pg, remaining, buf) ==
    LET chunkSize   == min(remaining, PayloadSize(fn))
        bytesSent   == pg * PayloadSize(fn)
        paddingSize == PayloadSize(fn) - chunkSize
    IN  [k \in 1..PackageSize(fn) |->
            ZeroPadding(k - 1, PackageSize(fn), paddingSize,
                CopyChunk(k - 1, HeaderSize(fn), buf, bytesSent, chunkSize,
                    SetHeader(fn, k - 1, pg, chunkSize, remaining, p[k])))]

\* The Device's blankImage: what the image codec returned for an all-black
\* image when the Device was opened (never empty).
blankImage == <<66, 77, 0, 0>>

\* Encoded images an application passes to SetButton: nil, or a buffer of
\* one of these lengths whose bytes are non-zero and differ from page to page.
ImageLens(fn) ==
    {0, 1} \cup {k * PayloadSize(fn) + d : k \in 1..(MaxPages - 1), d \in {-1, 0, 1}}

ImageBytes(len) == [i \in 1..len |-> ((i - 1) % 251) + 1]

Images(fn) ==
    {[isNil |-> TRUE, bytes |-> <<>>]} \cup
    {[isNil |-> FALSE, bytes |-> ImageBytes(len)] : len \in ImageLens(fn)}

InitImg ==
    /\ devType = 1
    /\ btnIndex = 0
    /\ rawNil = FALSE
    /\ buffer = <<>>
    /\ payload = <<>>
    /\ page = 0
    /\ bytesRemaining = 0
    /\ written = <<>>
    /\ attempts = 0
    /\ imgPc = "idle"
    /\ imgRet = "none"

(***************************************************************************)
(* Device.SetButton: src/unnamed/part_004                                  *)
(***************************************************************************)
\* The index check of SetButton: TRUE when btnIndex is rejected.
InvalidIndex(t, index) == min(max(index, 0), ButtonCount(t)) # index

\* SetButton up to the first iteration of the texture function's loop.
SetButton(d, index, img) ==
    LET t        == deviceTypes[d]
        rawImage == IF img.isNil THEN blankImage ELSE img.bytes
    IN  /\ imgPc = "idle"
        /\ devType' = d
        /\ btnIndex' = index
        /\ rawNil' = img.isNil
        /\ written' = <<>>
        /\ attempts' = 0
        /\ page' = 0
        /\ IF InvalidIndex(t, index)
           THEN /\ imgRet' = "err_index"
                /\ imgPc' = "done"
                /\ buffer' = <<>>
                /\ payload' = <<>>
                /\ bytesRemaining' = 0
           ELSE /\ imgRet' = "none"
                /\ imgPc' = "loop"
                /\ buffer' = rawImage
                /\ payload' = InitPayload(t.ImageTextureFunc, index % 256)
                /\ bytesRemaining' = Len(rawImage)

\* ImageTextureWrite that drops the write error and carries on.
ImageTextureWrite_IgnoreError ==
    LET fn  == deviceTypes[devType].ImageTextureFunc
        pkt == Packet(fn, payload, page, bytesRemaining, buffer)
    IN  /\ imgPc = "loop"
        /\ bytesRemaining > 0
        /\ payload' = pkt
        /\ attempts' = attempts + 1
        /\ \E ok \in BOOLEAN :
            /\ written' = IF ok THEN Append(written, pkt) ELSE written
            /\ bytesRemaining' = bytesRemaining - min(bytesRemaining, PayloadSize(fn))
            /\ page' = page + 1
            /\ UNCHANGED <<imgPc, imgRet>>
        /\ UNCHANGED <<devType, btnIndex, rawNil, buffer>>

\* One iteration of the texture function's loop: build the packet, write it,
\* return the write error or advance.
ImageTextureWrite ==
    LET fn  == deviceTypes[devType].ImageTextureFunc
        pkt == Packet(fn, payload, page, bytesRemaining, buffer)
    IN  /\ imgPc = "loop"
        /\ bytesRemaining > 0
        /\ payload' = pkt
        /\ attempts' = attempts + 1
        /\ \E ok \in BOOLEAN :
            IF ok
            THEN /\ written' = Append(written, pkt)
                 /\ bytesRemaining' = bytesRemaining - min(bytesRemaining, PayloadSize(fn))
                 /\ page' = page + 1
                 /\ UNCHANGED <<imgPc, imgRet>>
            ELSE /\ imgRet' = "err_write"
                 /\ imgPc' = "done"
                 /\ UNCHANGED <<written, bytesRemaining, page>>
        /\ UNCHANGED <<devType, btnIndex, rawNil, buffer>>

\* The loop ends when no byte remains: return nil.
ImageTextureReturn ==
    /\ imgPc = "loop"
    /\ bytesRemaining = 0
    /\ imgRet' = "nil"
    /\ imgPc' = "done"
    /\ UNCHANGED <<devType, btnIndex, rawNil, buffer, payload, page,
                   bytesRemaining, written, attempts>>

\* SetButton has returned to its caller, which may call it again; nothing of
\* the call outlives it.
SetButtonReturned ==
    /\ imgPc = "done"
    /\ devType' = 1
    /\ btnIndex' = 0
    /\ rawNil' = FALSE
    /\ buffer' = <<>>
    /\ payload' = <<>>
    /\ page' = 0
    /\ bytesRemaining' = 0
    /\ written' = <<>>
    /\ attempts' = 0
    /\ imgPc' = "idle"
    /\ imgRet' = "none"

\* Button indices passed to SetButton on a Device of type t.
ButtonInputs(t) == {-1, 0, ButtonCount(t) - 1, ButtonCount(t), ButtonCount(t) + 1}

NextImg ==
    \/ /\ imgPc = "idle"
       /\ \E d \in 1..Len(deviceTypes) :
          \E index \in ButtonInputs(deviceTypes[d]) :
          \E img \in Images(deviceTypes[d].ImageTextureFunc) :
              SetButton(d, index, img)
       /\ UNCHANGED nonImgVars
    \/ ImageTextureWrite /\ UNCHANGED nonImgVars
    \/ ImageTextureReturn /\ UNCHANGED nonImgVars
    \/ SetButtonReturned /\ UNCHANGED nonImgVars

(***************************************************************************)
(* Transport: src/unnamed/part_001 (hid.USB), and Device.Close of          *)
(* src/unnamed/part_004                                                    *)
(***************************************************************************)
\* USB.f == nil.
NilFile == 0

\* (*os.File)(nil).Fd(): ^uintptr(0), no descriptor of the process.
BadFd == 0 - 1

\* fMx is held by no goroutine.
NoThread == "none"

\* The operations of Read, Write and SendFeatureReport.
TransferOps == {"Read", "Write", "SendFeatureReport"}

NoUsbFrame ==
    [op |-> "none", ctx |-> FALSE, stage |-> "none", fd |-> 0, relErr |-> FALSE,
     closed |-> FALSE, ret |-> "none"]

\* No syscall was issued by the last step.
NoSyscall ==
    [thread |-> NoThread, req |-> "none", fd |-> 0, open |-> FALSE,
     failed |-> FALSE]

\* USB.endpointOut: no OUT endpoint, or endpoint 2.
EndpointOuts == {0, 2}

InitUsb ==
    /\ uf = NilFile
    /\ openFds = {}
    /\ fMx = NoThread
    /\ endpointOut \in EndpointOuts
    /\ upc = [t \in UsbThreads |-> "idle"]
    /\ uframe = [t \in UsbThreads |-> NoUsbFrame]
    /\ lastSys = NoSyscall
    /\ deviceClosed = FALSE

\* The descriptor os.OpenFile returns: the lowest one that is not open.
NewFd == CHOOSE fd \in 1..(Cardinality(openFds) + 1) : fd \notin openFds

\* f.Fd().
Fd(f) == IF f = NilFile THEN BadFd ELSE f

\* unix.Syscall(unix.SYS_IOCTL, fd, req, v) is issued and returns r.
Syscall(t, req, fd, r) ==
    lastSys' = [thread |-> t, req |-> req, fd |-> fd, open |-> fd \in openFds,
                failed |-> (r = -1)]

\* What the ioctl syscall can return: -1 on a descriptor that is not open
\* (EBADF), otherwise -1 (an errno) or a count.
SyscallResults(fd) == IF fd \in openFds THEN {-1, 0, 1} ELSE {-1}

\* The select of ioctl and unsafeIoctl that never takes its ctx.Done() case.
CtxDone_Never(t) == FALSE

\* select { case <-ctx.Done(): ... }: the context of t's call is cancelled.
CtxDone(t) == uframe[t].ctx

\* unsafeIoctl(ctx, req, v) returning r: no syscall and r = 0 when the context
\* is done, otherwise the syscall on u.f.Fd(), read without the lock.
unsafeIoctl(t, req, r) ==
    IF CtxDone(t)
    THEN r = 0 /\ lastSys' = NoSyscall
    ELSE r \in SyscallResults(Fd(uf)) /\ Syscall(t, req, Fd(uf), r)

\* ctrl and intr: (r, err) of ioctl becomes (-1, err) when r is -1 and
\* (r, nil) otherwise.
ctrl(r, err) == IF r = -1 THEN <<-1, err>> ELSE <<r, "nil">>
intr(r, err) == IF r = -1 THEN <<-1, err>> ELSE <<r, "nil">>

\* Read: (n, nil) when intr's err is nil, (0, err) otherwise.
Read(r, err) ==
    IF intr(r, err)[2] = "nil" THEN <<intr(r, err)[1], "nil">>
    ELSE <<0, intr(r, err)[2]>>

\* Write: intr on the OUT endpoint, or ctrl when there is none.
Write(r, err) == IF endpointOut > 0 THEN intr(r, err) ELSE ctrl(r, err)

SendFeatureReport(r, err) == ctrl(r, err)

\* The transfer of Device.Reset and Device.SetBrightness is SendFeatureReport.
TransferOf(op) ==
    IF op \in {"DeviceClose", "OpenPath"} THEN "SendFeatureReport" ELSE op

\* The request code the transfer passes to ioctl.
RequestOf(op) ==
    IF TransferOf(op) = "Read" THEN "USBDevFSBulk"
    ELSE IF TransferOf(op) = "Write" /\ endpointOut > 0 THEN "USBDevFSBulk"
    ELSE "USBDevFSControl"

\* What the transfer returns for ioctl's (r, err).
TransferResult(op, r, err) ==
    IF TransferOf(op) = "Read" THEN Read(r, err)
    ELSE IF TransferOf(op) = "Write" THEN Write(r, err)
    ELSE SendFeatureReport(r, err)

\* The call of t returns ret; its locals go out of scope.
UsbReturn(t, ret) ==
    /\ uframe' = [uframe EXCEPT ![t] =
                    [NoUsbFrame EXCEPT !.op = uframe[t].op, !.ctx = uframe[t].ctx,
                                       !.closed = uframe[t].closed, !.ret = ret]]
    /\ upc' = [upc EXCEPT ![t] = "idle"]
    /\ deviceClosed' = IF uframe[t].op = "DeviceClose" /\ ret = "nil"
                          /\ uf # NilFile
                       THEN TRUE ELSE deviceClosed

\* USB.Open is called.
UsbOpen(t, cancelled) ==
    /\ upc[t] = "idle"
    /\ uframe' = [uframe EXCEPT ![t] =
                    [NoUsbFrame EXCEPT !.op = "Open", !.ctx = cancelled]]
    /\ upc' = [upc EXCEPT ![t] = "o_lock"]
    /\ lastSys' = NoSyscall
    /\ UNCHANGED <<uf, openFds, fMx, endpointOut, deviceClosed>>

\* Open: u.fMx.Lock().
UsbOpenLock(t) ==
    /\ upc[t] = "o_lock"
    /\ fMx = NoThread
    /\ fMx' = t
    /\ upc' = [upc EXCEPT ![t] = "o_check"]
    /\ lastSys' = NoSyscall
    /\ UNCHANGED <<uf, openFds, endpointOut, uframe, deviceClosed>>

\* Open that goes on to os.OpenFile whatever u.f is.
UsbOpenCheck_NoCheck(t) ==
    /\ upc[t] = "o_check"
    /\ upc' = [upc EXCEPT ![t] = "o_file"]
    /\ lastSys' = NoSyscall
    /\ UNCHANGED <<uf, openFds, fMx, endpointOut, uframe, deviceClosed>>

\* Open: if u.f != nil { u.fMx.Unlock(); return ErrDeviceAlreadyConnected }.
UsbOpenCheck(t) ==
    /\ upc[t] = "o_check"
    /\ IF uf # NilFile
       THEN /\ fMx' = NoThread
            /\ UsbReturn(t, "ErrDeviceAlreadyConnected")
       ELSE /\ upc' = [upc EXCEPT ![t] = "o_file"]
            /\ UNCHANGED <<fMx, uframe, deviceClosed>>
    /\ lastSys' = NoSyscall
    /\ UNCHANGED <<uf, openFds, endpointOut>>

\* Open: os.OpenFile; on an error unlock and return it, otherwise u.f = f,
\* unlock and go on to unsafeClaim.
UsbOpenFile(t) ==
    /\ upc[t] = "o_file"
    /\ \E ok \in BOOLEAN :
        IF ok
        THEN /\ uf' = NewFd
             /\ openFds' = openFds \cup {NewFd}
             /\ upc' = [upc EXCEPT ![t] = "claim1"]
             /\ deviceClosed' = FALSE
             /\ UNCHANGED uframe
        ELSE /\ UsbReturn(t, "errno")
             /\ UNCHANGED <<uf, openFds>>
    /\ fMx' = NoThread
    /\ lastSys' = NoSyscall
    /\ UNCHANGED <<endpointOut>>

\* unsafeClaim that goes on to the claim ioctl whatever the disconnect ioctl
\* returned.
UsbClaimDisconnect_GoOn(t) ==
    /\ upc[t] = "claim1"
    /\ \E r \in {-1, 0, 1} : unsafeIoctl(t, "USBDevFSDisconnect", r)
    /\ upc' = [upc EXCEPT ![t] = "claim2"]
    /\ UNCHANGED <<uf, openFds, fMx, endpointOut, uframe, deviceClosed>>

\* unsafeClaim: the disconnect ioctl; r == -1 returns its error.
UsbClaimDisconnect(t) ==
    /\ upc[t] = "claim1"
    /\ \E r \in {-1, 0, 1} :
        /\ unsafeIoctl(t, "USBDevFSDisconnect", r)
        /\ IF r = -1
           THEN UsbReturn(t, "errno")
           ELSE /\ upc' = [upc EXCEPT ![t] = "claim2"]
                /\ UNCHANGED <<uframe, deviceClosed>>
    /\ UNCHANGED <<uf, openFds, fMx, endpointOut>>

\* unsafeClaim: the claim ioctl; r == -1 returns its error, otherwise nil.
\* Open called by OpenPath's open returns there, and a nil error takes
\* OpenPath on to d.Reset.
UsbClaimInterface(t) ==
    /\ upc[t] = "claim2"
    /\ \E r \in {-1, 0, 1} :
        /\ unsafeIoctl(t, "USBDevFSClaim", r)
        /\ IF r # -1 /\ uframe[t].op = "OpenPath"
           THEN /\ uframe' = [uframe EXCEPT ![t].stage = "Reset"]
                /\ upc' = [upc EXCEPT ![t] = "io"]
                /\ UNCHANGED deviceClosed
           ELSE UsbReturn(t, IF r = -1 THEN "errno" ELSE "nil")
    /\ UNCHANGED <<uf, openFds, fMx, endpointOut>>

\* OpenPath that closes the file when d.Reset fails.
OpenPathReset_CloseOnError(t, r, err) ==
    /\ uf' = IF r = -1 THEN NilFile ELSE uf
    /\ openFds' = IF r = -1 THEN openFds \ {uf} ELSE openFds

\* OpenPath after d.Reset returned: the Device or the error is returned, the
\* transport is left as it is.
OpenPathReset(t, r, err) == UNCHANGED <<uf, openFds>>

\* OpenPath reaches d.Open(ctx) of the device open has matched; d.Reset(ctx)
\* follows when Open returns nil.
OpenPathOpen(t, cancelled) ==
    /\ upc[t] = "idle"
    /\ uframe' = [uframe EXCEPT ![t] =
                    [NoUsbFrame EXCEPT !.op = "OpenPath", !.ctx = cancelled]]
    /\ upc' = [upc EXCEPT ![t] = "o_lock"]
    /\ lastSys' = NoSyscall
    /\ UNCHANGED <<uf, openFds, fMx, endpointOut, deviceClosed>>

\* USB.Close is called.
UsbClose(t, cancelled) ==
    /\ upc[t] = "idle"
    /\ uframe' = [uframe EXCEPT ![t] =
                    [NoUsbFrame EXCEPT !.op = "Close", !.ctx = cancelled,
                                       !.closed = (deviceClosed /\ uf = NilFile)]]
    /\ upc' = [upc EXCEPT ![t] = "c_lock"]
    /\ lastSys' = NoSyscall
    /\ UNCHANGED <<uf, openFds, fMx, endpointOut, deviceClosed>>

\* Close: u.fMx.Lock().
UsbCloseLock(t) ==
    /\ upc[t] = "c_lock"
    /\ fMx = NoThread
    /\ fMx' = t
    /\ upc' = [upc EXCEPT ![t] = "c_check"]
    /\ lastSys' = NoSyscall
    /\ UNCHANGED <<uf, openFds, endpointOut, uframe, deviceClosed>>

\* Close that goes on to the release sequence whatever u.f is.
UsbCloseCheck_NoCheck(t) ==
    /\ upc[t] = "c_check"
    /\ upc' = [upc EXCEPT ![t] = "rel1"]
    /\ lastSys' = NoSyscall
    /\ UNCHANGED <<uf, openFds, fMx, endpointOut, uframe, deviceClosed>>

\* Close: if u.f == nil { return nil } (the deferred Unlock runs).
UsbCloseCheck(t) ==
    /\ upc[t] = "c_check"
    /\ IF uf = NilFile
       THEN /\ fMx' = NoThread
            /\ UsbReturn(t, "nil")
       ELSE /\ upc' = [upc EXCEPT ![t] = "rel1"]
            /\ UNCHANGED <<fMx, uframe, deviceClosed>>
    /\ lastSys' = NoSyscall
    /\ UNCHANGED <<uf, openFds, endpointOut>>

\* Close that returns the release error at once, u.f left as it is.
UsbReleaseInterface_Leak(t) ==
    /\ upc[t] = "rel1"
    /\ \E r \in {-1, 0, 1} :
        /\ unsafeIoctl(t, "USBDevFSRelease", r)
        /\ IF r = -1
           THEN /\ fMx' = NoThread
                /\ UsbReturn(t, "errno")
           ELSE /\ upc' = [upc EXCEPT ![t] = "rel2"]
                /\ UNCHANGED <<fMx, uframe, deviceClosed>>
    /\ UNCHANGED <<uf, openFds, endpointOut>>

\* unsafeRelease: the release ioctl; r == -1 is the error of unsafeRelease.
UsbReleaseInterface(t) ==
    /\ upc[t] = "rel1"
    /\ \E r \in {-1, 0, 1} :
        /\ unsafeIoctl(t, "USBDevFSRelease", r)
        /\ uframe' = [uframe EXCEPT ![t].relErr = (r = -1)]
        /\ upc' = [upc EXCEPT ![t] = IF r = -1 THEN "c_file" ELSE "rel2"]
    /\ UNCHANGED <<uf, openFds, fMx, endpointOut, deviceClosed>>

\* unsafeRelease: the reconnect ioctl; r == -1 is the error of unsafeRelease.
UsbReleaseConnect(t) ==
    /\ upc[t] = "rel2"
    /\ \E r \in {-1, 0, 1} :
        /\ unsafeIoctl(t, "USBDevFSConnect", r)
        /\ uframe' = [uframe EXCEPT ![t].relErr = (r = -1)]
        /\ upc' = [upc EXCEPT ![t] = "c_file"]
    /\ UNCHANGED <<uf, openFds, fMx, endpointOut, deviceClosed>>

\* Close: u.f.Close(), u.f = nil, return the release error, else the error
\* of f.Close(), else nil (the deferred Unlock runs).
UsbCloseFile(t) ==
    /\ upc[t] = "c_file"
    /\ openFds' = openFds \ {uf}
    /\ uf' = NilFile
    /\ fMx' = NoThread
    /\ \E ok \in BOOLEAN :
        UsbReturn(t, IF uframe[t].relErr THEN "errno"
                        ELSE IF ok THEN "nil" ELSE "ErrClose")
    /\ lastSys' = NoSyscall
    /\ UNCHANGED <<endpointOut>>

\* Read, Write or SendFeatureReport is called.
Transfer(t, op, cancelled) ==
    /\ upc[t] = "idle"
    /\ uframe' = [uframe EXCEPT ![t] =
                    [NoUsbFrame EXCEPT !.op = op, !.ctx = cancelled]]
    /\ upc' = [upc EXCEPT ![t] = "io"]
    /\ lastSys' = NoSyscall
    /\ UNCHANGED <<uf, openFds, fMx, endpointOut, deviceClosed>>

\* Device.Close is called: Reset, SetBrightness(BrightnessFull), fd.Close.
DeviceClose(t, cancelled) ==
    /\ upc[t] = "idle"
    /\ uframe' = [uframe EXCEPT ![t] =
                    [NoUsbFrame EXCEPT !.op = "DeviceClose", !.ctx = cancelled,
                                       !.stage = "Reset",
                                       !.closed = (deviceClosed /\ uf = NilFile)]]
    /\ upc' = [upc EXCEPT ![t] = "io"]
    /\ lastSys' = NoSyscall
    /\ UNCHANGED <<uf, openFds, fMx, endpointOut, deviceClosed>>

\* A Device.Close that goes on to the next step whatever its transfer
\* returned.
TransferReturn_GoOn(t, r, err) ==
    IF uframe[t].op # "DeviceClose"
    THEN UsbReturn(t, TransferResult(uframe[t].op, r, err)[2])
    ELSE /\ uframe' = [uframe EXCEPT ![t].stage =
                         IF uframe[t].stage = "Reset" THEN "SetBrightness"
                         ELSE "Close"]
         /\ upc' = [upc EXCEPT ![t] =
                         IF uframe[t].stage = "Reset" THEN "io" ELSE "c_lock"]
         /\ UNCHANGED deviceClosed

\* ioctl returned (r, err) to the transfer of t: the transfer returns to its
\* caller, which for Device.Close goes on or returns the error.
TransferReturn(t, r, err) ==
    LET res == TransferResult(uframe[t].op, r, err) IN
    IF uframe[t].op # "DeviceClose" THEN UsbReturn(t, res[2])
    ELSE IF res[2] # "nil" THEN UsbReturn(t, res[2])
    ELSE /\ uframe' = [uframe EXCEPT ![t].stage =
                         IF uframe[t].stage = "Reset" THEN "SetBrightness"
                         ELSE "Close"]
         /\ upc' = [upc EXCEPT ![t] =
                         IF uframe[t].stage = "Reset" THEN "io" ELSE "c_lock"]
         /\ UNCHANGED deviceClosed

\* ioctl: return 0, ctx.Err() when the context is done; otherwise RLock,
\* fd := u.f.Fd(), RUnlock.
ioctlLoadFd(t) ==
    /\ upc[t] = "io"
    /\ IF CtxDone(t)
       THEN TransferReturn(t, 0, "ctx.Err")
       ELSE /\ fMx = NoThread
            /\ uframe' = [uframe EXCEPT ![t].fd = Fd(uf)]
            /\ upc' = [upc EXCEPT ![t] = "io_sys"]
            /\ UNCHANGED deviceClosed
    /\ lastSys' = NoSyscall
    /\ UNCHANGED <<uf, openFds, fMx, endpointOut>>

\* ioctl: the syscall on fd, after RUnlock; its result is returned.
ioctlSyscall(t) ==
    /\ upc[t] = "io_sys"
    /\ \E r \in SyscallResults(uframe[t].fd) :
        /\ Syscall(t, RequestOf(uframe[t].op), uframe[t].fd, r)
        /\ TransferReturn(t, r, IF r = -1 THEN "errno" ELSE "nil")
        /\ IF uframe[t].op = "OpenPath"
           THEN OpenPathReset(t, r, IF r = -1 THEN "errno" ELSE "nil")
           ELSE UNCHANGED <<uf, openFds>>
    /\ UNCHANGED <<fMx, endpointOut>>

NextUsb ==
    \/ (\E t \in UsbThreads, c \in BOOLEAN : UsbOpen(t, c)) /\ UNCHANGED nonUsbVars
    \/ (\E t \in UsbThreads : UsbOpenLock(t)) /\ UNCHANGED nonUsbVars
    \/ (\E t \in UsbThreads : UsbOpenCheck(t)) /\ UNCHANGED nonUsbVars
    \/ (\E t \in UsbThreads : UsbOpenFile(t)) /\ UNCHANGED nonUsbVars
    \/ (\E t \in UsbThreads : UsbClaimDisconnect(t)) /\ UNCHANGED nonUsbVars
    \/ (\E t \in UsbThreads : UsbClaimInterface(t)) /\ UNCHANGED nonUsbVars
    \/ (\E t \in UsbThreads, c \in BOOLEAN : UsbClose(t, c)) /\ UNCHANGED nonUsbVars
    \/ (\E t \in UsbThreads : UsbCloseLock(t)) /\ UNCHANGED nonUsbVars
    \/ (\E t \in UsbThreads : UsbCloseCheck(t)) /\ UNCHANGED nonUsbVars
    \/ (\E t \in UsbThreads : UsbReleaseInterface(t)) /\ UNCHANGED nonUsbVars
    \/ (\E t \in UsbThreads : UsbReleaseConnect(t)) /\ UNCHANGED nonUsbVars
    \/ (\E t \in UsbThreads : UsbCloseFile(t)) /\ UNCHANGED nonUsbVars
    \/ (\E t \in UsbThreads, op \in TransferOps, c \in BOOLEAN : Transfer(t, op, c))
       /\ UNCHANGED nonUsbVars
    \/ (\E t \in UsbThreads, c \in BOOLEAN : DeviceClose(t, c)) /\ UNCHANGED nonUsbVars
    \/ (\E t \in UsbThreads, c \in BOOLEAN : OpenPathOpen(t, c)) /\ UNCHANGED nonUsbVars
    \/ (\E t \in UsbThreads : ioctlLoadFd(t)) /\ UNCHANGED nonUsbVars
    \/ (\E t \in UsbThreads : ioctlSyscall(t)) /\ UNCHANGED nonUsbVars

(***************************************************************************)
(* Background loops: Device.buttonPressListener of src/unnamed/part_004,   *)
(* StreamDeck.buttonCallbackListener and StreamDeck.Close of               *)
(* src/streamdeck.go                                                       *)
(***************************************************************************)
\* The handler the application registers while the loops are observed.
LoopHandlers == {"h1"}

\* The Devices whose input is polled: a Mini and a Plus.
PollDeviceTypes == {3, 7}

\* The bytes of the report buffer that buttonPressListener looks at, and the
\* one before them.
ReportBytes(t) == 0..(t.ButtonOffset + ButtonCount(t) - 1)

\* The report buffer after `states[i] = 0x0` for every i.
ZeroStates(t) == [p \in ReportBytes(t) |-> 0]

\* Input reports: the positions holding 1 and those holding 2; all other
\* bytes are 0.
ReportPatterns(t) ==
    LET off == t.ButtonOffset
        last == t.ButtonOffset + ButtonCount(t) - 1
    IN  { <<{}, {}>>,
          <<{off, last}, {}>>,
          <<{off - 1, off + 1}, {off}>> }

Reports(t) ==
    { [p \in ReportBytes(t) |->
          IF p \in pat[1] THEN 1 ELSE IF p \in pat[2] THEN 2 ELSE 0] :
      pat \in ReportPatterns(t) }

NoPoll == [states |-> <<>>, i |-> 0]

InitLoop ==
    /\ cancelCalled = FALSE
    /\ pollDev = 1
    /\ pollPc = "off"
    /\ poll = NoPoll
    /\ pollRet = "none"
    /\ got = <<>>
    /\ handlerErred = FALSE
    /\ invokedAfterErr = FALSE
    /\ lastRead = "none"

\* The test of the scan that takes every non-zero byte for a press.
Pressed_NonZero(states, p) == states[p] # 0

\* buttonPressListener: states[readOffset+i] != 1 skips the button.
Pressed(states, p) == states[p] = 1

\* buttonPressListener: the next i at or after `from` that is sent, or
\* numberOfButtons when the for loop ends.
RECURSIVE NextPressed(_, _, _)
NextPressed(t, states, from) ==
    IF from >= ButtonCount(t) THEN ButtonCount(t)
    ELSE IF Pressed(states, t.ButtonOffset + from) THEN from
    ELSE NextPressed(t, states, from + 1)

\* NewFromDevice on Device d: both goroutines are started.
StartLoops(d) ==
    /\ NewFromDevice
    /\ pollDev' = d
    /\ pollPc' = "select"
    /\ UNCHANGED <<cancelCalled, poll, pollRet, got, handlerErred, invokedAfterErr, lastRead>>

\* StreamDeck.Close: s.cancel().
StreamDeckClose ==
    /\ constructed
    /\ ~cancelCalled
    /\ cancelCalled' = TRUE
    /\ UNCHANGED <<pollDev, pollPc, poll, pollRet, got, handlerErred,
                   invokedAfterErr, lastRead>>

\* buttonPressListener: select on ctx.Done(), else zero the buffer.
PollSelect ==
    /\ pollPc = "select"
    /\ IF cancelCalled
       THEN /\ pollPc' = "returned"
            /\ pollRet' = "ctx.Err"
            /\ UNCHANGED poll
       ELSE /\ pollPc' = "read"
            /\ poll' = [states |-> ZeroStates(deviceTypes[pollDev]), i |-> 0]
            /\ UNCHANGED pollRet
    /\ lastRead' = "none"
    /\ UNCHANGED <<cancelCalled, pollDev, got, handlerErred, invokedAfterErr>>

\* buttonPressListener: d.fd.Read(ctx, states, 0) up to the syscall; with a
\* cancelled context Read returns (0, nil) and n == 0 ends the loop.
PollRead ==
    /\ pollPc = "read"
    /\ IF cancelCalled
       THEN /\ pollPc' = "returned"
            /\ pollRet' = "nil"
       ELSE /\ pollPc' = "read_sys"
            /\ UNCHANGED pollRet
    /\ UNCHANGED <<cancelCalled, pollDev, poll, got, handlerErred, invokedAfterErr, lastRead>>

\* A polling loop that takes a time-out for any other error.
PollReadReturn_TimeoutFatal(res) ==
    /\ pollPc = "read_sys"
    /\ IF res.kind \in {"timed out", "errno"}
       THEN /\ pollPc' = "returned"
            /\ pollRet' = "errno"
            /\ UNCHANGED <<poll, got>>
       ELSE IF res.kind = "zero"
       THEN /\ pollPc' = "returned"
            /\ pollRet' = "nil"
            /\ UNCHANGED <<poll, got>>
       ELSE /\ pollPc' = "scan"
            /\ poll' = [states |-> res.states, i |-> 0]
            /\ got' = <<>>
            /\ UNCHANGED pollRet
    /\ lastRead' = res.kind
    /\ UNCHANGED <<cancelCalled, pollDev, handlerErred, invokedAfterErr>>

\* buttonPressListener: the read returns; a timeout continues, another
\* error or n == 0 returns, a report is scanned from i = 0.
PollReadReturn(res) ==
    /\ pollPc = "read_sys"
    /\ IF res.kind = "timed out"
       THEN /\ pollPc' = "select"
            /\ UNCHANGED <<poll, pollRet, got>>
       ELSE IF res.kind = "errno"
       THEN /\ pollPc' = "returned"
            /\ pollRet' = "errno"
            /\ UNCHANGED <<poll, got>>
       ELSE IF res.kind = "zero"
       THEN /\ pollPc' = "returned"
            /\ pollRet' = "nil"
            /\ UNCHANGED <<poll, got>>
       ELSE /\ pollPc' = "scan"
            /\ poll' = [states |-> res.states, i |-> 0]
            /\ got' = <<>>
            /\ UNCHANGED pollRet
    /\ lastRead' = res.kind
    /\ UNCHANGED <<cancelCalled, pollDev, handlerErred, invokedAfterErr>>

\* What the read can return: an error, n == 0, or a report in the buffer.
ReadResults(t) ==
    {[kind |-> k, states |-> ZeroStates(t)] : k \in {"timed out", "errno", "zero"}}
        \cup {[kind |-> "data", states |-> r] : r \in Reports(t)}

\* buttonPressListener: the for loop up to its next `ch <- i`, or its end.
PollScan ==
    /\ pollPc = "scan"
    /\ LET j == NextPressed(deviceTypes[pollDev], poll.states, poll.i) IN
        /\ poll' = [poll EXCEPT !.i = j]
        /\ pollPc' = IF j < ButtonCount(deviceTypes[pollDev]) THEN "send" ELSE "select"
        /\ got' = IF j < ButtonCount(deviceTypes[pollDev]) THEN got ELSE <<>>
    /\ UNCHANGED <<cancelCalled, pollDev, pollRet, handlerErred, invokedAfterErr, lastRead>>

\* ch <- i meets index := <-s.ch: the channel is unbuffered.
PollSend ==
    /\ pollPc = "send"
    /\ DispatchReceive(poll.i)
    /\ got' = Append(got, disp'.index)
    /\ poll' = [poll EXCEPT !.i = poll.i + 1]
    /\ pollPc' = "scan"
    /\ UNCHANGED <<cancelCalled, pollDev, pollRet, handlerErred, invokedAfterErr, lastRead>>

\* buttonCallbackListener: case <-ctx.Done(): return ctx.Err().
DispatchCancelled ==
    /\ pc[Dispatch] = "recv"
    /\ cancelCalled
    /\ pc' = [pc EXCEPT ![Dispatch] = "returned"]
    /\ UNCHANGED <<constructed, brightness, isSleeping, pressHandler, applied,
                   frame, disp, targetSetAsleep>>

\* A dispatch loop that returns when the handler returns an error.
DispatchInvokeHandler_StopOnError(err) ==
    /\ pc[Dispatch] = "d_invoke"
    /\ disp' = [disp EXCEPT !.calls = Append(disp.calls, <<disp.handler, disp.index>>)]
    /\ pc' = [pc EXCEPT ![Dispatch] = IF err THEN "returned" ELSE "recv"]
    /\ UNCHANGED <<constructed, brightness, isSleeping, pressHandler, applied,
                   frame, targetSetAsleep>>
    /\ handlerErred' = (handlerErred \/ err)
    /\ invokedAfterErr' = (invokedAfterErr \/ handlerErred)
    /\ UNCHANGED <<cancelCalled, pollDev, pollPc, poll, pollRet, got, lastRead>>

\* buttonCallbackListener: _ = pressHandler(ctx, index), the handler
\* returning an error (err) or nil.
DispatchInvokeHandler(err) ==
    /\ DispatchInvoke
    /\ handlerErred' = (handlerErred \/ err)
    /\ invokedAfterErr' = (invokedAfterErr \/ handlerErred)
    /\ UNCHANGED <<cancelCalled, pollDev, pollPc, poll, pollRet, got, lastRead>>

NextLoop ==
    \/ (\E d \in PollDeviceTypes : StartLoops(d)) /\ UNCHANGED nonLoopVars
    \/ StreamDeckClose /\ UNCHANGED <<ctlVars, nonLoopVars>>
    \/ PollSelect /\ UNCHANGED <<ctlVars, nonLoopVars>>
    \/ PollRead /\ UNCHANGED <<ctlVars, nonLoopVars>>
    \/ /\ pollPc = "read_sys"
       /\ \E res \in ReadResults(deviceTypes[pollDev]) : PollReadReturn(res)
       /\ UNCHANGED <<ctlVars, nonLoopVars>>
    \/ PollScan /\ UNCHANGED <<ctlVars, nonLoopVars>>
    \/ PollSend /\ UNCHANGED nonLoopVars
    \/ DispatchCancelled /\ UNCHANGED nonCtlVars
    \/ DispatchLoadHandler /\ UNCHANGED nonCtlVars
    \/ DispatchCheck /\ UNCHANGED nonCtlVars
    \/ DispatchWake /\ UNCHANGED nonCtlVars
    \/ (\E err \in BOOLEAN : DispatchInvokeHandler(err)) /\ UNCHANGED nonLoopVars
    \/ (\E fn \in LoopHandlers \cup {NoHandler} : SetHandler(fn)) /\ UNCHANGED nonCtlVars
    \/ (\E t \in Apps : OneAtATime(t) /\ SetSleeping(t, TRUE)) /\ UNCHANGED nonCtlVars
    \/ (\E t \in Threads : SetSleepingApply(t)) /\ UNCHANGED nonCtlVars
    \/ (\E t \in Threads : SetSleepingStore(t)) /\ UNCHANGED nonCtlVars

(***************************************************************************)
(* Descriptor walker: src/unnamed/part_000                                 *)
(***************************************************************************)
USBHidClass == 3
USBDescTypeDevice == 1
USBDescTypeConfig == 2
USBDescTypeInterface == 4
USBDescTypeEndpoint == 5
USBDescTypeReport == 33
elgatoVendorID == 4057

\* The most records a descriptor file holds after its Device and Config
\* records.
MaxTail == 4

\* A uint16 as the device transmits it: low byte first.
LE16(x) == <<x % 256, x \div 256>>

\* The records of a descriptor file, laid out as deviceDesc, interfaceDesc
\* and endpointDesc are; a Config record is 9 bytes.
DeviceRecord(vendor, product, revision) ==
    <<18, USBDescTypeDevice, 0, 2, 0, 0, 0, 64>>
        \o LE16(vendor) \o LE16(product) \o LE16(revision) \o <<1, 2, 3, 1>>

ConfigRecord == <<9, USBDescTypeConfig, 34, 0, 1, 1, 0, 128, 50>>

InterfaceRecord(number, class, subClass, protocol) ==
    <<9, USBDescTypeInterface, number, 0, 2, class, subClass, protocol, 0>>

EndpointRecord(address, maxPacketSize) ==
    <<7, USBDescTypeEndpoint, address, 3>> \o LE16(maxPacketSize) \o <<1>>

\* How a descriptor file starts: the Device record of a Stream Deck XL or of
\* another vendor's device and a Config record, no Device record, or a
\* Device record of 4 bytes.
Heads ==
    { <<DeviceRecord(elgatoVendorID, deviceTypes[5].ProductID, 513), ConfigRecord>>,
      <<DeviceRecord(1133, 49948, 258), ConfigRecord>>,
      <<ConfigRecord>>,
      <<<<4, USBDescTypeDevice, 0, 2>>, ConfigRecord>> }

\* What follows: two HID interfaces, a mass-storage interface, the IN
\* endpoints 0x81 and 0x80, an OUT endpoint, a record of declared length 1,
\* and an endpoint record that declares 9 bytes and has 3.
TailRecords ==
    { InterfaceRecord(0, USBHidClass, 1, 1),
      InterfaceRecord(1, USBHidClass, 0, 2),
      InterfaceRecord(2, 8, 6, 80),
      EndpointRecord(129, 512),
      EndpointRecord(128, 64),
      EndpointRecord(2, 1024),
      <<1>>,
      <<9, USBDescTypeEndpoint, 131>> }

RECURSIVE Flatten(_)
Flatten(recs) ==
    IF recs = <<>> THEN <<>> ELSE Head(recs) \o Flatten(Tail(recs))

\* The contents os.ReadFile can return.
Files ==
    { Flatten(h \o t) :
        h \in Heads, t \in UNION {[1..n -> TailRecords] : n \in 0..MaxTail} }

\* A path as its components: a name, or a run of decimal digits.
Name(s) == [name |-> s, digits |-> <<>>]
Digits(d) == [name |-> "", digits |-> d]

\* /dev/bus/usb/003/005 and /tmp/usb/005.
Paths ==
    { <<Name("dev"), Name("bus"), Name("usb"), Digits(<<0, 0, 3>>), Digits(<<0, 0, 5>>)>>,
      <<Name("tmp"), Name("usb"), Digits(<<0, 0, 5>>)>> }

\* strconv.Atoi of a run of decimal digits.
RECURSIVE Atoi(_)
Atoi(d) ==
    IF d = <<>> THEN 0
    ELSE Atoi(SubSeq(d, 1, Len(d) - 1)) * 10 + d[Len(d)]

\* reDevBusDevice.FindStringSubmatch(path): the leftmost /dev/bus/usb/N/M,
\* as the whole match and its two groups, or no match.
FindStringSubmatch(path) ==
    LET starts == { i \in 1..(Len(path) - 4) :
                      /\ path[i].name = "dev"
                      /\ path[i + 1].name = "bus"
                      /\ path[i + 2].name = "usb"
                      /\ path[i + 3].digits # <<>>
                      /\ path[i + 4].digits # <<>> }
    IN  IF starts = {} THEN <<>>
        ELSE LET i == CHOOSE j \in starts : \A k \in starts : j <= k
             IN  <<path[i + 3].digits \o path[i + 4].digits,
                   path[i + 3].digits, path[i + 4].digits>>

\* A uint16 read big-endian.
U16_BigEndian(b0, b1) == 256 * b0 + b1

\* binary.LittleEndian: the uint16 in two consecutive bytes.
U16(b0, b1) == b0 + 256 * b1

\* cast into a deviceDesc, an interfaceDesc, an endpointDesc: the fields the
\* walker uses.
castDeviceDesc(b) ==
    [Vendor |-> U16(b[9], b[10]), Product |-> U16(b[11], b[12]),
     Revision |-> U16(b[13], b[14])]

castInterfaceDesc(b) ==
    [Number |-> b[3], InterfaceClass |-> b[6], InterfaceSubClass |-> b[7],
     InterfaceProtocol |-> b[8]]

castEndpointDesc(b) ==
    [Address |-> b[3], MaxPacketSize |-> U16(b[5], b[6])]

ZeroDesc == [Vendor |-> 0, Product |-> 0, Revision |-> 0]

ZeroInfo ==
    [VendorID |-> 0, ProductID |-> 0, Revision |-> 0, SubClass |-> 0,
     Protocol |-> 0, Interface |-> 0, Bus |-> 0, Device |-> 0]

\* A nil *USB.
NilUSB ==
    [nil |-> TRUE, info |-> ZeroInfo, endpointIn |-> 0, endpointOut |-> 0,
     inputPacketSize |-> 0, outputPacketSize |-> 0]

\* &USB{info: info, path: path}
NewUSB(info) ==
    [nil |-> FALSE, info |-> info, endpointIn |-> 0, endpointOut |-> 0,
     inputPacketSize |-> 0, outputPacketSize |-> 0]

NoWalkRet == [dev |-> NilUSB, err |-> "none"]

InitWalk ==
    /\ wPath = <<>>
    /\ wBytes = <<>>
    /\ rBuf = <<>>
    /\ filter = {}
    /\ desc = ZeroDesc
    /\ device = NilUSB
    /\ wPc = "off"
    /\ wRet = NoWalkRet

\* Device(path), os.ReadFile returning f: the state before the for loop.
Device(path, f) ==
    /\ wPc = "off"
    /\ wPath' = path
    /\ wBytes' = f
    /\ rBuf' = f
    /\ filter' = {USBDescTypeDevice}
    /\ desc' = ZeroDesc
    /\ device' = NilUSB
    /\ wPc' = "loop"
    /\ wRet' = NoWalkRet

\* Device: return nil, err.
WalkFail(err) ==
    /\ wPc' = "done"
    /\ wRet' = [dev |-> NilUSB, err |-> err]

\* A length test that accepts a record with fewer bytes than it declares.
ShortRead_OnlyBelowTwo(n, length) == length < 2

\* Device: n != int(length) || length < 2
ShortRead(n, length) == n # length \/ length < 2

\* Device: case USBDescTypeDevice.
WalkDevice(b) ==
    /\ filter' = (filter \ {USBDescTypeDevice}) \cup {USBDescTypeConfig}
    /\ IF Len(b) < 18
       THEN WalkFail("cast") /\ UNCHANGED desc
       ELSE desc' = castDeviceDesc(b) /\ UNCHANGED <<wPc, wRet>>
    /\ UNCHANGED device

\* Device: case USBDescTypeConfig.
WalkConfig ==
    /\ filter' = (filter \cup {USBDescTypeInterface})
                    \ {USBDescTypeReport, USBDescTypeEndpoint}
    /\ UNCHANGED <<desc, device, wPc, wRet>>

\* Device: case USBDescTypeInterface.
WalkInterface(b) ==
    /\ filter' = filter \cup {USBDescTypeEndpoint, USBDescTypeReport}
    /\ IF Len(b) < 9
       THEN WalkFail("cast") /\ UNCHANGED device
       ELSE LET i == castInterfaceDesc(b)
                matches == FindStringSubmatch(wPath)
                bus == IF Len(matches) >= 3 THEN Atoi(matches[2]) ELSE 0
                dev == IF Len(matches) >= 3 THEN Atoi(matches[3]) ELSE 0
            IN  /\ IF i.InterfaceClass # USBHidClass
                   THEN UNCHANGED device
                   ELSE device' = NewUSB([VendorID |-> desc.Vendor,
                                          ProductID |-> desc.Product,
                                          Revision |-> desc.Revision,
                                          SubClass |-> i.InterfaceSubClass,
                                          Protocol |-> i.InterfaceProtocol,
                                          Interface |-> i.Number,
                                          Bus |-> bus,
                                          Device |-> dev])
                /\ UNCHANGED <<wPc, wRet>>
    /\ UNCHANGED desc

\* Device: case USBDescTypeEndpoint.
WalkEndpoint(b) ==
    /\ IF device.nil
       THEN UNCHANGED <<device, wPc, wRet>>
       ELSE LET d1 == IF device.endpointIn # 0 /\ device.endpointOut # 0
                      THEN [device EXCEPT !.endpointIn = 0, !.endpointOut = 0]
                      ELSE device
            IN  IF Len(b) < 7
                THEN WalkFail("cast") /\ device' = d1
                ELSE LET e == castEndpointDesc(b)
                     IN  /\ device' =
                              IF e.Address > 128 /\ d1.endpointIn = 0
                              THEN [d1 EXCEPT !.endpointIn = e.Address,
                                              !.inputPacketSize = e.MaxPacketSize]
                              ELSE IF e.Address < 128 /\ d1.endpointOut = 0
                              THEN [d1 EXCEPT !.endpointOut = e.Address,
                                              !.outputPacketSize = e.MaxPacketSize]
                              ELSE d1
                         /\ UNCHANGED <<wPc, wRet>>
    /\ UNCHANGED <<filter, desc>>

\* Device: one iteration of `for r.Len() > 0`.
WalkRecord ==
    /\ wPc = "loop"
    /\ Len(rBuf) > 0
    /\ LET length == rBuf[1]
           n == min(length, Len(rBuf))
           b == [i \in 1..length |-> IF i <= n THEN rBuf[i] ELSE 0]
       IN  /\ rBuf' = SubSeq(rBuf, n + 1, Len(rBuf))
           /\ IF ShortRead(n, length)
              THEN WalkFail("short read") /\ UNCHANGED <<filter, desc, device>>
              ELSE IF b[2] \notin filter
              THEN UNCHANGED <<filter, desc, device, wPc, wRet>>
              ELSE IF b[2] = USBDescTypeDevice THEN WalkDevice(b)
              ELSE IF b[2] = USBDescTypeConfig THEN WalkConfig
              ELSE IF b[2] = USBDescTypeInterface THEN WalkInterface(b)
              ELSE IF b[2] = USBDescTypeEndpoint THEN WalkEndpoint(b)
              ELSE UNCHANGED <<filter, desc, device, wPc, wRet>>
    /\ UNCHANGED <<wPath, wBytes>>

\* Device: the buffer is empty, return device, nil.
WalkEnd ==
    /\ wPc = "loop"
    /\ Len(rBuf) = 0
    /\ wPc' = "done"
    /\ wRet' = [dev |-> device, err |-> "nil"]
    /\ UNCHANGED <<wPath, wBytes, rBuf, filter, desc, device>>

nonWalkVars == <<ctlVars, imgVars, usbVars, loopVars, openVars, raceVars,
                 extraVars>>

NextWalk ==
    \/ /\ wPc = "off"
       /\ \E path \in Paths, f \in Files : Device(path, f)
       /\ UNCHANGED nonWalkVars
    \/ WalkRecord /\ UNCHANGED nonWalkVars
    \/ WalkEnd /\ UNCHANGED nonWalkVars

(***************************************************************************)
(* Finding and opening a Stream Deck: src/unnamed/part_004                 *)
(***************************************************************************)
\* The most devices hid.Devices returns.
MaxFound == 2

\* The DeviceInfo of the devices hid.Devices returns: Elgato's or another
\* vendor's, with the product id of a Stream Deck, of a Stream Deck Plus, or
\* one that is in no row of deviceTypes.
FoundInfos ==
    [VendorID : {elgatoVendorID, 1133},
     ProductID : {deviceTypes[1].ProductID, deviceTypes[7].ProductID, 153}]

\* What hid.Devices(path) can return.
DevicesResults ==
    {[err |-> TRUE, devices |-> <<>>]}
        \cup {[err |-> FALSE, devices |-> l] :
                l \in UNION {[1..n -> FoundInfos] : n \in 0..MaxFound}}

NoFound == [err |-> FALSE, devices |-> <<>>]

NoODev == [d |-> 0, dt |-> 0]

NoORet == [dev |-> NoODev, err |-> "none"]

InitOpen ==
    /\ found = NoFound
    /\ oPc = "off"
    /\ oDev = NoODev
    /\ oOpened = 0
    /\ oRet = NoORet

\* OpenPath(ctx, path) is called.
OpenPath ==
    /\ oPc = "off"
    /\ oPc' = "enum"
    /\ UNCHANGED <<found, oDev, oOpened, oRet>>

\* OpenPath returns d, err.
OpenReturn(d, err) ==
    /\ oPc' = "done"
    /\ oRet' = [dev |-> d, err |-> err]

\* open: hid.Devices(path) returns res.
OpenDevices(res) ==
    /\ oPc = "enum"
    /\ found' = res
    /\ IF res.err
       THEN OpenReturn(NoODev, "enum")
       ELSE oPc' = "match" /\ UNCHANGED oRet
    /\ UNCHANGED <<oDev, oOpened>>

\* A match on the product id alone.
Matches_AnyVendor(devices) ==
    { m \in (1..Len(devices)) \X (1..Len(deviceTypes)) :
        devices[m[1]].ProductID = deviceTypes[m[2]].ProductID }

\* open: the pairs (d, dt) the two loops do not `continue` on.
Matches(devices) ==
    { m \in (1..Len(devices)) \X (1..Len(deviceTypes)) :
        ~(\/ devices[m[1]].VendorID # elgatoVendorID
          \/ devices[m[1]].ProductID # deviceTypes[m[2]].ProductID) }

\* open: the two loops up to their first match, or to their end.
OpenMatch ==
    /\ oPc = "match"
    /\ LET ms == Matches(found.devices) IN
        IF ms = {}
        THEN OpenReturn(NoODev, "nil") /\ UNCHANGED oDev
        ELSE LET m == CHOOSE x \in ms : \A y \in ms :
                          x[1] < y[1] \/ (x[1] = y[1] /\ x[2] <= y[2])
             IN  /\ oDev' = [d |-> m[1], dt |-> m[2]]
                 /\ oPc' = "blank"
                 /\ UNCHANGED oRet
    /\ UNCHANGED <<found, oOpened>>

\* open: dt.ImageFormat.Blank returns.
OpenBlank(ok) ==
    /\ oPc = "blank"
    /\ IF ok
       THEN oPc' = "open" /\ UNCHANGED oRet
       ELSE OpenReturn(NoODev, "blank")
    /\ UNCHANGED <<found, oDev, oOpened>>

\* open: d.Open(ctx) returns.
OpenOpen(ok) ==
    /\ oPc = "open"
    /\ IF ok
       THEN oPc' = "reset" /\ oOpened' = oDev.d /\ UNCHANGED oRet
       ELSE OpenReturn(NoODev, "open") /\ UNCHANGED oOpened
    /\ UNCHANGED <<found, oDev>>

\* OpenPath: d.Reset(ctx) returns.
OpenReset(ok) ==
    /\ oPc = "reset"
    /\ IF ok
       THEN OpenReturn(oDev, "nil")
       ELSE OpenReturn(NoODev, "reset")
    /\ UNCHANGED <<found, oDev, oOpened>>

nonOpenVars == <<ctlVars, imgVars, usbVars, loopVars, walkVars, raceVars,
                 extraVars>>

NextOpen ==
    \/ OpenPath /\ UNCHANGED nonOpenVars
    \/ (\E res \in DevicesResults : OpenDevices(res)) /\ UNCHANGED nonOpenVars
    \/ OpenMatch /\ UNCHANGED nonOpenVars
    \/ (\E ok \in BOOLEAN : OpenBlank(ok)) /\ UNCHANGED nonOpenVars
    \/ (\E ok \in BOOLEAN : OpenOpen(ok)) /\ UNCHANGED nonOpenVars
    \/ (\E ok \in BOOLEAN : OpenReset(ok)) /\ UNCHANGED nonOpenVars

InitRace == seen = {}

(***************************************************************************)
(* Enumeration: Devices and devices of src/unnamed/part_000                *)
(***************************************************************************)
\* The entries below the directory Devices is called on number at most
\* MaxNodes, at any depth.
MaxNodes == 3

\* An entry of the file tree. A file carries what Device returns on it: a
\* device ("dev"), neither device nor error ("nil"), or an error ("err"). A
\* directory is listed ("ok"), or fails in os.Lstat ("lstat") or in
\* os.ReadDir ("readdir").
File(out) == [kind |-> "file", out |-> out, files |-> <<>>]
Dir(out, files) == [kind |-> "dir", out |-> out, files |-> files]
NoEntry == [kind |-> "none", out |-> "none", files |-> <<>>]

RECURSIVE Listings(_)
\* The directory listings of at most n entries, subdirectories' entries
\* counted.
Listings(n) ==
    IF n = 0 THEN {<<>>}
    ELSE {<<>>} \cup UNION {
             { <<e>> \o rest :
                 e \in {File(o) : o \in {"dev", "nil", "err"}}
                          \cup {Dir(o, <<>>) : o \in {"lstat", "readdir"}}
                          \cup {Dir("ok", fs) : fs \in Listings(k - 1)},
                 rest \in Listings(n - k) } : k \in 1..n }

\* What Devices is called on: a directory, or a path that is a device file.
Roots ==
    {Dir("ok", fs) : fs \in Listings(MaxNodes)}
        \cup {Dir(o, <<>>) : o \in {"lstat", "readdir"}}
        \cup {File(o) : o \in {"dev", "nil", "err"}}

\* An error is told from the others by the path of the entry that failed.
NoErr == [failed |-> FALSE, path |-> <<>>]
ErrAt(path) == [failed |-> TRUE, path |-> path]

InitEnum ==
    /\ eTree = NoEntry
    /\ eCall = [node |-> NoEntry, path |-> <<>>]
    /\ eStack = <<>>
    /\ eRetv = [devs |-> <<>>, err |-> NoErr]
    /\ ePc = "off"
    /\ eRet = [devs |-> <<>>, err |-> NoErr]

\* A return statement: the values travel to the caller.
EnumReturnValues(devs, err) ==
    /\ eRetv' = [devs |-> devs, err |-> err]
    /\ ePc' = "ret"

\* The application calls Devices(dir).
DevicesCall(root) ==
    /\ ePc = "off"
    /\ eTree' = root
    /\ eCall' = [node |-> root, path |-> <<>>]
    /\ ePc' = "call"
    /\ UNCHANGED <<eStack, eRetv, eRet>>

\* Devices up to the listing of the directory in devices: os.Lstat, Device on
\* a path that is no directory, os.ReadDir.
Devices ==
    /\ ePc = "call"
    /\ LET n == eCall.node
           path == eCall.path
       IN  IF n.out = "lstat"
           THEN EnumReturnValues(<<>>, ErrAt(path)) /\ UNCHANGED eStack
           ELSE IF n.kind = "file"
           THEN /\ EnumReturnValues(IF n.out = "dev" THEN <<path>> ELSE <<>>,
                                    IF n.out = "err" THEN ErrAt(path) ELSE NoErr)
                /\ UNCHANGED eStack
           ELSE IF n.out = "readdir"
           THEN EnumReturnValues(<<>>, ErrAt(path)) /\ UNCHANGED eStack
           ELSE /\ eStack' = Append(eStack, [path |-> path, files |-> n.files,
                                             i |-> 1, devices |-> <<>>])
                /\ ePc' = "loop"
                /\ UNCHANGED eRetv
    /\ UNCHANGED <<eTree, eCall, eRet>>

Top == eStack[Len(eStack)]
Pop == SubSeq(eStack, 1, Len(eStack) - 1)
SetTop(fr) == [eStack EXCEPT ![Len(eStack)] = fr]

\* A failed Device returns from devices without the devices collected.
devicesEntry_KeepOnError(top, path) ==
    /\ eStack' = Pop
    /\ EnumReturnValues(top.devices, ErrAt(path))

devicesEntryError(top, path) ==
    /\ eStack' = Pop
    /\ EnumReturnValues(<<>>, ErrAt(path))

\* One iteration of the loop of devices, up to the recursive call for a
\* directory.
devicesEntry ==
    /\ ePc = "loop"
    /\ Top.i <= Len(Top.files)
    /\ LET top == Top
           f == top.files[top.i]
           path == Append(top.path, top.i)
       IN  IF f.kind = "dir"
           THEN /\ eCall' = [node |-> f, path |-> path]
                /\ ePc' = "call"
                /\ UNCHANGED <<eStack, eRetv>>
           ELSE IF f.out = "err"
           THEN devicesEntryError(top, path) /\ UNCHANGED eCall
           ELSE /\ eStack' = SetTop([top EXCEPT
                                  !.i = @ + 1,
                                  !.devices = IF f.out = "dev"
                                              THEN Append(@, path) ELSE @])
                /\ UNCHANGED <<eCall, eRetv, ePc>>
    /\ UNCHANGED <<eTree, eRet>>

\* The loop of devices is over: the devices collected are returned.
devicesEnd ==
    /\ ePc = "loop"
    /\ Top.i > Len(Top.files)
    /\ eStack' = Pop
    /\ EnumReturnValues(Top.devices, NoErr)
    /\ UNCHANGED <<eTree, eCall, eRet>>

\* Devices returns: to the application, or into the loop of the devices that
\* called it, which gives up on an error and appends the devices otherwise.
DevicesReturn ==
    /\ ePc = "ret"
    /\ IF eStack = <<>>
       THEN /\ eRet' = eRetv
            /\ ePc' = "done"
            /\ UNCHANGED <<eStack, eRetv>>
       ELSE IF eRetv.err.failed
       THEN /\ eStack' = Pop
            /\ EnumReturnValues(<<>>, eRetv.err)
            /\ UNCHANGED eRet
       ELSE /\ eStack' = SetTop([Top EXCEPT !.i = @ + 1,
                                            !.devices = @ \o eRetv.devs])
            /\ ePc' = "loop"
            /\ UNCHANGED <<eRetv, eRet>>
    /\ UNCHANGED <<eTree, eCall>>

nonEnumVars == <<ctlVars, imgVars, usbVars, loopVars, walkVars, openVars,
                 raceVars, provVars, holdVars>>

NextEnum ==
    \/ (ePc = "off" /\ \E root \in Roots : DevicesCall(root))
           /\ UNCHANGED nonEnumVars
    \/ Devices /\ UNCHANGED nonEnumVars
    \/ devicesEntry /\ UNCHANGED nonEnumVars
    \/ devicesEnd /\ UNCHANGED nonEnumVars
    \/ DevicesReturn /\ UNCHANGED nonEnumVars

(***************************************************************************)
(* Controller calls that overlap: src/streamdeck.go                        *)
(***************************************************************************)
\* The brightness the application sets while calls overlap.
RaceBrightness == {40}

\* One application goroutine calling SetBrightness and SetSleeping one call
\* at a time, and the dispatch loop waking the Controller on a press
\* whenever it is scheduled.
NextWake ==
    \/ NewFromDevice /\ UNCHANGED nonCtlVars
    \/ (\E t \in Apps, v \in RaceBrightness : SetBrightness(t, v)) /\ UNCHANGED nonCtlVars
    \/ (\E t \in Apps, s \in BOOLEAN : SetSleeping(t, s)) /\ UNCHANGED nonCtlVars
    \/ (\E t \in Threads : SetBrightnessApply(t)) /\ UNCHANGED nonCtlVars
    \/ (\E t \in Threads : SetBrightnessStore(t)) /\ UNCHANGED nonCtlVars
    \/ (\E t \in Threads : SetSleepingApply(t)) /\ UNCHANGED nonCtlVars
    \/ (\E t \in Threads : SetSleepingStore(t)) /\ UNCHANGED nonCtlVars
    \/ DispatchReceive(0) /\ UNCHANGED nonCtlVars
    \/ DispatchLoadHandler /\ UNCHANGED nonCtlVars
    \/ DispatchCheck /\ UNCHANGED nonCtlVars
    \/ DispatchWake /\ UNCHANGED nonCtlVars

\* Two goroutines are inside a Controller call.
Overlap ==
    \E t, u \in Threads : t # u /\ pc[t] \in CallPcs /\ pc[u] \in CallPcs

\* A SetBrightness(v), v > 0, and a SetSleeping(true) have both returned nil
\* and the Controller is Sleeping with target v and v applied to the Device.
SleepingLit ==
    /\ \A t \in Threads : pc[t] \notin CallPcs
    /\ isSleeping
    /\ \E t, u \in RaceApps :
          /\ t # u
          /\ frame[t].op = "SetBrightness" /\ frame[t].ret = "nil"
          /\ frame[t].in > 0
          /\ frame[u].op = "SetSleeping" /\ frame[u].sleeping
          /\ frame[u].ret = "nil"
          /\ brightness = Clamp(frame[t].in)
          /\ applied = brightness
          /\ applied # BrightnessMin

\* A SetBrightness and a SetSleeping(false) have both returned nil and the
\* Controller is Awake with a brightness applied that is not the target.
AwakeStale ==
    /\ \A t \in Threads : pc[t] \notin CallPcs
    /\ ~isSleeping
    /\ \E t, u \in RaceApps :
          /\ t # u
          /\ frame[t].op = "SetBrightness" /\ frame[t].ret = "nil"
          /\ frame[u].op = "SetSleeping" /\ ~frame[u].sleeping
          /\ frame[u].ret = "nil"
          /\ applied # brightness

Outcomes ==
    (IF Overlap THEN {"Overlap"} ELSE {})
        \cup (IF SleepingLit THEN {"SleepingLit"} ELSE {})
        \cup (IF AwakeStale THEN {"AwakeStale"} ELSE {})

\* What the step leads to is added to the outcomes observed.
Observe == seen' = seen \cup Outcomes'

nonRaceVars == <<imgVars, usbVars, loopVars, walkVars, openVars, extraVars>>

\* Two application goroutines calling SetBrightness and SetSleeping without
\* waiting for each other.
NextRace ==
    \/ NewFromDevice /\ Observe /\ UNCHANGED nonRaceVars
    \/ /\ \E t \in RaceApps, v \in RaceBrightness : SetBrightness(t, v)
       /\ Observe /\ UNCHANGED nonRaceVars
    \/ /\ \E t \in RaceApps, s \in BOOLEAN : SetSleeping(t, s)
       /\ Observe /\ UNCHANGED nonRaceVars
    \/ (\E t \in RaceApps : SetBrightnessApply(t)) /\ Observe /\ UNCHANGED nonRaceVars
    \/ (\E t \in RaceApps : SetBrightnessStore(t)) /\ Observe /\ UNCHANGED nonRaceVars
    \/ (\E t \in RaceApps : SetSleepingApply(t)) /\ Observe /\ UNCHANGED nonRaceVars
    \/ (\E t \in RaceApps : SetSleepingStore(t)) /\ Observe /\ UNCHANGED nonRaceVars

(***************************************************************************)
(* SetButton of the DeviceProvider-based Device: src/device.go, with the   *)
(* providers of src/unnamed/part_003 and src/device_original_mk2.go        *)
(***************************************************************************)
\* The providers: Mini and OriginalMk2.
Providers ==
    { [name |-> "Mini", Rows |-> 2, Cols |-> 3, ImagePayloadSize |-> 1024],
      [name |-> "OriginalMk2", Rows |-> 3, Cols |-> 5, ImagePayloadSize |-> 1024] }

\* Mini.GetImageHeader: 16 bytes, the last-page byte fifth.
Mini_GetImageHeader(p, remaining, index, pageNumber) ==
    LET thisLength == IF p.ImagePayloadSize < remaining
                      THEN p.ImagePayloadSize ELSE remaining
        element    == IF thisLength = remaining THEN 1 ELSE 0
    IN  <<2, 1, pageNumber % 256, 0, element, (index + 1) % 256,
          0, 0, 0, 0, 0, 0, 0, 0, 0, 0>>

\* OriginalMk2.GetImageHeader: 8 bytes, the last-page byte fourth.
OriginalMk2_GetImageHeader(p, remaining, index, pageNumber) ==
    LET thisLength == IF p.ImagePayloadSize < remaining
                      THEN p.ImagePayloadSize ELSE remaining
    IN  <<2, 7, index % 256, IF thisLength = remaining THEN 1 ELSE 0,
          thisLength % 256, (thisLength \div 256) % 256,
          pageNumber % 256, (pageNumber \div 256) % 256>>

GetImageHeader(p, remaining, index, pageNumber) ==
    IF p.name = "Mini"
    THEN Mini_GetImageHeader(p, remaining, index, pageNumber)
    ELSE OriginalMk2_GetImageHeader(p, remaining, index, pageNumber)

\* The last-page byte of a header of the provider.
LastPageByte(p, header) == IF p.name = "Mini" THEN header[5] ELSE header[4]

\* Lengths of the images passed to SetButton: around the multiples of the
\* packet size and of the packet size less the header.
ProviderImageLens(p) ==
    LET hs == Len(GetImageHeader(p, 1, 0, 0))
    IN  {0, 1} \cup
        {k * sz + d : k \in 1..(MaxPages - 1), d \in {-1, 0, 1},
                      sz \in {p.ImagePayloadSize, p.ImagePayloadSize - hs}}

NoProvider == [name |-> "none", Rows |-> 0, Cols |-> 0, ImagePayloadSize |-> 0]

InitProv ==
    /\ pvProvider = NoProvider
    /\ pvIndex = 0
    /\ pvLen = 0
    /\ pvRemaining = 0
    /\ pvPage = 0
    /\ pvSent = <<>>
    /\ pvPc = "idle"
    /\ pvRet = "none"

\* SetButton up to its loop; isNil tells a nil rawImage, which the blank
\* image replaces.
ProviderSetButton(p, index, isNil, len) ==
    LET rawLen == IF isNil THEN Len(blankImage) ELSE len
    IN  /\ pvPc = "idle"
        /\ pvProvider' = p
        /\ pvIndex' = index
        /\ pvLen' = rawLen
        /\ pvPage' = 0
        /\ pvSent' = <<>>
        /\ IF min(max(index, 0), p.Rows * p.Cols) # index
           THEN /\ pvRet' = "err_index"
                /\ pvPc' = "done"
                /\ pvRemaining' = 0
           ELSE /\ pvRet' = "none"
                /\ pvPc' = "loop"
                /\ pvRemaining' = rawLen

\* One iteration of the loop of SetButton: the header, the chunk, the
\* padding, the write; a packet is recorded by its header, the image bytes
\* it carries (their offset and count), its length and the bytes that
\* remained before it.
ProviderWrite ==
    LET p                        == pvProvider
        header                   == GetImageHeader(p, pvRemaining, pvIndex, pvPage)
        imageReportLength        == p.ImagePayloadSize
        imageReportPayloadLength == imageReportLength - Len(header)
        thisLength               == IF imageReportPayloadLength < pvRemaining
                                    THEN imageReportPayloadLength
                                    ELSE pvRemaining
        bytesSent                == pvPage * imageReportPayloadLength
        payloadLen               == Len(header) + thisLength
        paddingLen               == imageReportLength - payloadLen
    IN  /\ pvPc = "loop"
        /\ pvRemaining > 0
        /\ \E ok \in BOOLEAN :
            IF ok
            THEN /\ pvSent' = Append(pvSent,
                                [header |-> header, from |-> bytesSent,
                                 carried |-> thisLength,
                                 length |-> payloadLen + paddingLen,
                                 remaining |-> pvRemaining])
                 /\ pvRemaining' = pvRemaining - thisLength
                 /\ pvPage' = pvPage + 1
                 /\ UNCHANGED <<pvPc, pvRet>>
            ELSE /\ pvRet' = "err_write"
                 /\ pvPc' = "done"
                 /\ UNCHANGED <<pvSent, pvRemaining, pvPage>>
        /\ UNCHANGED <<pvProvider, pvIndex, pvLen>>

\* No byte remains: SetButton returns nil.
ProviderReturn ==
    /\ pvPc = "loop"
    /\ pvRemaining = 0
    /\ pvRet' = "nil"
    /\ pvPc' = "done"
    /\ UNCHANGED <<pvProvider, pvIndex, pvLen, pvRemaining, pvPage, pvSent>>

nonProvVars == <<ctlVars, imgVars, usbVars, loopVars, walkVars, openVars,
                 raceVars, enumVars, holdVars>>

NextProv ==
    \/ /\ pvPc = "idle"
       /\ \E p \in Providers :
            \E index \in {-1, 0, p.Rows * p.Cols, p.Rows * p.Cols + 1} :
                \/ ProviderSetButton(p, index, TRUE, 0)
                \/ \E len \in ProviderImageLens(p) :
                        ProviderSetButton(p, index, FALSE, len)
       /\ UNCHANGED nonProvVars
    \/ ProviderWrite /\ UNCHANGED nonProvVars
    \/ ProviderReturn /\ UNCHANGED nonProvVars

(***************************************************************************)
(* StreamDeck.Close against the polling loop, on the hid.USB of            *)
(* src/unnamed/part_000, whose ctrl and intr hold fMx for reading until    *)
(* the ioctl has returned                                                  *)
(***************************************************************************)
Poller == "poll"
Closer == "closer"

\* sync.RWMutex: RLock waits while a writer holds the lock or waits for it.
CanRLock == hWriter = NoThread /\ ~hPending

InitHold ==
    /\ hReaders = {}
    /\ hWriter = NoThread
    /\ hPending = FALSE
    /\ hFile = TRUE
    /\ hCancel = FALSE
    /\ hPoll = [pc |-> "select", res |-> "none", ret |-> "none"]
    /\ hClose = [pc |-> "idle", ctx |-> FALSE, r |-> 0, ret |-> "none"]

\* buttonPressListener: the select of the loop.
HoldPollSelect ==
    /\ hPoll.pc = "select"
    /\ hPoll' = IF hCancel
                THEN [hPoll EXCEPT !.pc = "returned", !.ret = "ctx.Err"]
                ELSE [hPoll EXCEPT !.pc = "rlock", !.res = "none"]
    /\ UNCHANGED <<hReaders, hWriter, hPending, hFile, hCancel, hClose>>

\* d.fd.Read(ctx, states, 0): intr takes u.fMx.RLock().
HoldPollRLock ==
    /\ hPoll.pc = "rlock"
    /\ CanRLock
    /\ hReaders' = hReaders \cup {Poller}
    /\ hPoll' = [hPoll EXCEPT !.pc = "ioctl"]
    /\ UNCHANGED <<hWriter, hPending, hFile, hCancel, hClose>>

\* ioctl: return 0, ctx.Err() when the context is done, otherwise the
\* syscall is entered.
HoldPollIoctl ==
    /\ hPoll.pc = "ioctl"
    /\ hPoll' = IF hCancel
                THEN [hPoll EXCEPT !.pc = "runlock", !.res = "zero"]
                ELSE [hPoll EXCEPT !.pc = "sys"]
    /\ UNCHANGED <<hReaders, hWriter, hPending, hFile, hCancel, hClose>>

\* The bulk transfer with Timeout 0 returns: the device has delivered an
\* input report, or the transfer has failed.
HoldPollSyscall(res) ==
    /\ hPoll.pc = "sys"
    /\ hPoll' = [hPoll EXCEPT !.pc = "runlock", !.res = res]
    /\ UNCHANGED <<hReaders, hWriter, hPending, hFile, hCancel, hClose>>

\* intr's deferred RUnlock, Read's return and what the loop does with it: a
\* report is scanned and the loop goes on, an error or n == 0 returns.
HoldPollRUnlock ==
    /\ hPoll.pc = "runlock"
    /\ hReaders' = hReaders \ {Poller}
    /\ hPoll' = IF hPoll.res = "data" THEN [hPoll EXCEPT !.pc = "select"]
                ELSE [hPoll EXCEPT !.pc = "returned",
                                   !.ret = IF hPoll.res = "zero" THEN "nil"
                                           ELSE "errno"]
    /\ UNCHANGED <<hWriter, hPending, hFile, hCancel, hClose>>

\* StreamDeck.Close(ctx): s.cancel(), then s.device.Close(ctx) up to the
\* RLock of Reset's ctrl.
HoldClose(cancelled) ==
    /\ hClose.pc = "idle"
    /\ hCancel' = TRUE
    /\ hClose' = [hClose EXCEPT !.pc = "reset_rlock", !.ctx = cancelled]
    /\ UNCHANGED <<hReaders, hWriter, hPending, hFile, hPoll>>

\* ctrl of Reset and of SetBrightness: u.fMx.RLock().
HoldCtrlRLock ==
    /\ hClose.pc \in {"reset_rlock", "bright_rlock"}
    /\ CanRLock
    /\ hReaders' = hReaders \cup {Closer}
    /\ hClose' = [hClose EXCEPT !.pc = IF hClose.pc = "reset_rlock"
                                       THEN "reset_ioctl" ELSE "bright_ioctl"]
    /\ UNCHANGED <<hWriter, hPending, hFile, hCancel, hPoll>>

\* ctrl: ioctl returns r: 0 without a syscall when ctx is done, otherwise
\* what the control transfer returns.
HoldCtrlIoctl(r) ==
    /\ hClose.pc \in {"reset_ioctl", "bright_ioctl"}
    /\ hClose.ctx => r = 0
    /\ hClose' = [hClose EXCEPT !.r = r,
                                !.pc = IF hClose.pc = "reset_ioctl"
                                       THEN "reset_runlock" ELSE "bright_runlock"]
    /\ UNCHANGED <<hReaders, hWriter, hPending, hFile, hCancel, hPoll>>

\* ctrl's deferred RUnlock; Device.Close returns the error, or goes on to
\* SetBrightness and then to u.fMx.Lock() of USB.Close.
HoldCtrlRUnlock ==
    /\ hClose.pc \in {"reset_runlock", "bright_runlock"}
    /\ hReaders' = hReaders \ {Closer}
    /\ hClose' = IF hClose.r = -1
                 THEN [hClose EXCEPT !.pc = "returned", !.ret = "errno"]
                 ELSE [hClose EXCEPT !.pc = IF hClose.pc = "reset_runlock"
                                            THEN "bright_rlock" ELSE "lock"]
    /\ UNCHANGED <<hWriter, hPending, hFile, hCancel, hPoll>>

\* USB.Close: u.fMx.Lock() is called; from now on no RLock is granted.
HoldCloseLock ==
    /\ hClose.pc = "lock"
    /\ hPending' = TRUE
    /\ hClose' = [hClose EXCEPT !.pc = "lock_wait"]
    /\ UNCHANGED <<hReaders, hWriter, hFile, hCancel, hPoll>>

\* u.fMx.Lock() returns once no goroutine holds the lock for reading.
HoldCloseLocked ==
    /\ hClose.pc = "lock_wait"
    /\ hReaders = {}
    /\ hWriter = NoThread
    /\ hWriter' = Closer
    /\ hPending' = FALSE
    /\ hClose' = [hClose EXCEPT !.pc = "release"]
    /\ UNCHANGED <<hReaders, hFile, hCancel, hPoll>>

\* USB.Close under the lock: u.f == nil returns nil; otherwise release,
\* u.f.Close(), u.f = nil, and the error of release or of f.Close() is
\* returned; the deferred Unlock runs.
HoldCloseFile(relOk, closeOk) ==
    /\ hClose.pc = "release"
    /\ hFile' = FALSE
    /\ hWriter' = NoThread
    /\ hClose' = [hClose EXCEPT
                    !.pc = "returned",
                    !.ret = IF ~hFile THEN "nil"
                            ELSE IF ~relOk THEN "errno"
                            ELSE IF ~closeOk THEN "ErrClose" ELSE "nil"]
    /\ UNCHANGED <<hReaders, hPending, hCancel, hPoll>>

nonHoldVars == <<ctlVars, imgVars, usbVars, loopVars, walkVars, openVars,
                 raceVars, enumVars, provVars>>

\* The steps of the two goroutines, which the scheduler runs when they can
\* be taken.
HoldPollStep ==
    (HoldPollSelect \/ HoldPollRLock \/ HoldPollIoctl \/ HoldPollRUnlock)
        /\ UNCHANGED nonHoldVars

HoldCloseStep ==
    (\/ HoldCtrlRLock
     \/ \E r \in {-1, 0, 1} : HoldCtrlIoctl(r)
     \/ HoldCtrlRUnlock
     \/ HoldCloseLock
     \/ HoldCloseLocked
     \/ \E relOk \in BOOLEAN, closeOk \in BOOLEAN : HoldCloseFile(relOk, closeOk))
        /\ UNCHANGED nonHoldVars

NextHold ==
    \/ HoldPollStep
    \/ (\E res \in {"data", "errno"} : HoldPollSyscall(res)) /\ UNCHANGED nonHoldVars
    \/ (\E c \in BOOLEAN : HoldClose(c)) /\ UNCHANGED nonHoldVars
    \/ HoldCloseStep

(***************************************************************************)
(* Specifications.                                                         *)
(***************************************************************************)
\* Every component before its first operation, for every handle.
InitHandles ==
    /\ Init /\ InitImg /\ InitUsb /\ InitLoop /\ InitWalk /\ InitOpen /\ InitRace
    /\ InitEnum /\ InitProv /\ InitHold

\* Every component before its first operation, the handle with an OUT endpoint.
InitAll == InitHandles /\ endpointOut > 0

Next ==
    \/ NewFromDevice /\ UNCHANGED nonCtlVars
    \/ /\ \E t \in Apps :
            OneAtATime(t) /\ \E v \in BrightnessInputs : SetBrightness(t, v)
       /\ UNCHANGED nonCtlVars
    \/ /\ \E t \in Apps : OneAtATime(t) /\ \E s \in BOOLEAN : SetSleeping(t, s)
       /\ UNCHANGED nonCtlVars
    \/ (\E t \in Apps : OneAtATime(t) /\ ToggleSleep(t)) /\ UNCHANGED nonCtlVars
    \/ (\E t \in Threads : SetBrightnessApply(t)) /\ UNCHANGED nonCtlVars
    \/ (\E t \in Threads : SetBrightnessStore(t)) /\ UNCHANGED nonCtlVars
    \/ (\E t \in Threads : ToggleSleepLoad(t)) /\ UNCHANGED nonCtlVars
    \/ (\E t \in Threads : SetSleepingApply(t)) /\ UNCHANGED nonCtlVars
    \/ (\E t \in Threads : SetSleepingStore(t)) /\ UNCHANGED nonCtlVars
    \/ (\E t \in Threads : ToggleSleepReturn(t)) /\ UNCHANGED nonCtlVars
    \/ (\E fn \in Handlers \cup {NoHandler} : SetHandler(fn)) /\ UNCHANGED nonCtlVars
    \/ (\E index \in 0..MaxPressIndex : DispatchReceive(index)) /\ UNCHANGED nonCtlVars
    \/ DispatchLoadHandler /\ UNCHANGED nonCtlVars
    \/ DispatchCheck /\ UNCHANGED nonCtlVars
    \/ OneAtATime(Dispatch) /\ DispatchWake /\ UNCHANGED nonCtlVars
    \/ DispatchInvoke /\ UNCHANGED nonCtlVars

\* The Controller with its calls issued one at a time.
Spec == InitAll /\ [][Next]_vars

\* SetButton and the image transfer of one Device.
SpecImg == InitAll /\ [][NextImg]_vars

\* One hid.USB handle used by concurrent goroutines.
SpecUsb == InitHandles /\ [][NextUsb]_vars

\* The polling loop and the dispatch loop of one Controller, until and after
\* StreamDeck.Close cancels them.
SpecLoop == InitAll /\ [][NextLoop]_vars

\* Device(path) on one descriptor file.
SpecWalk == InitAll /\ [][NextWalk]_vars

\* OpenPath on the devices an enumeration returns.
SpecOpen == InitAll /\ [][NextOpen]_vars

\* The application's calls one at a time, the dispatch loop's wake-up free.
SpecWake == InitAll /\ [][NextWake]_vars

\* Two application goroutines whose calls overlap.
SpecRace == InitAll /\ [][NextRace]_vars

\* Devices(dir) on one file tree.
SpecEnum == InitAll /\ [][NextEnum]_vars

\* SetButton of a DeviceProvider-based Device on one image.
SpecProv == InitAll /\ [][NextProv]_vars

\* StreamDeck.Close and the polling loop on the transport that holds the
\* lock over its transfers. Both goroutines keep being scheduled; when the
\* device delivers a report is up to the device.
SpecHold ==
    /\ InitAll
    /\ [][NextHold]_vars
    /\ WF_vars(HoldPollStep)
    /\ WF_vars(HoldCloseStep)

(***************************************************************************)
(* Termination of StreamDeck.Close (checked under SpecHold).               *)
(***************************************************************************)
\* C38: a StreamDeck.Close that was called returns in the end, whether or
\* not the device delivers another input report.
C38_CloseReturns == (hClose.pc # "idle") ~> (hClose.pc = "returned")


(***************************************************************************)
(* Properties of the DeviceProvider-based SetButton (checked under         *)
(* SpecProv).                                                              *)
(***************************************************************************)
\* C34: the last-page byte of a packet's header is 1 exactly when the packet
\* carries all the bytes that remained before it, the final packet of the
\* image and no other.
C34_LastPageFlagOnFinalPacketOnly ==
    \A k \in 1..Len(pvSent) :
        (LastPageByte(pvProvider, pvSent[k].header) = 1)
            <=> (pvSent[k].carried = pvSent[k].remaining)

(***************************************************************************)
(* Enumeration properties (checked under SpecEnum).                        *)
(***************************************************************************)
RECURSIVE FileFailures(_, _)
\* The paths of the files below an entry on which Device returns an error.
FileFailures(n, path) ==
    IF n.kind = "file"
    THEN IF n.out = "err" THEN {path} ELSE {}
    ELSE UNION {FileFailures(n.files[i], Append(path, i)) : i \in 1..Len(n.files)}

RECURSIVE Failures(_, _)
\* The paths of all entries below an entry that fail: files, and directories
\* that cannot be listed.
Failures(n, path) ==
    IF n.kind = "file"
    THEN IF n.out = "err" THEN {path} ELSE {}
    ELSE IF n.out # "ok" THEN {path}
    ELSE UNION {Failures(n.files[i], Append(path, i)) : i \in 1..Len(n.files)}

\* C33: when Device fails on any file at any depth below the directory,
\* Devices returns an error, the error of an entry that failed, and no
\* device at all.
C33_EnumerationAllOrNothing ==
    (ePc = "done" /\ FileFailures(eTree, <<>>) # {})
        => /\ eRet.err.failed
           /\ eRet.err.path \in Failures(eTree, <<>>)
           /\ eRet.devs = <<>>

\* Devices returned the error of a file two levels down, after the loop had
\* collected a device.
C33_Witness ==
    /\ ePc = "done"
    /\ eTree.kind = "dir"
    /\ Len(eTree.files) = 2
    /\ eTree.files[1].out = "dev"
    /\ eRet.err.failed
    /\ Len(eRet.err.path) = 2
    /\ eRet.err.path \in FileFailures(eTree, <<>>)
    /\ eRet.devs = <<>>

(***************************************************************************)
(* Descriptor walker properties (checked under SpecWalk).                  *)
(***************************************************************************)
\* Every record of the stream declares at least 2 bytes and no more than
\* the stream still holds.
RECURSIVE Framed(_)
Framed(bytes) ==
    IF bytes = <<>> THEN TRUE
    ELSE /\ bytes[1] >= 2
         /\ bytes[1] <= Len(bytes)
         /\ Framed(SubSeq(bytes, bytes[1] + 1, Len(bytes)))

\* The records of a framed stream.
RECURSIVE RecordsOf(_)
RecordsOf(bytes) ==
    IF bytes = <<>> THEN <<>>
    ELSE <<SubSeq(bytes, 1, bytes[1])>>
            \o RecordsOf(SubSeq(bytes, bytes[1] + 1, Len(bytes)))

IsInterface(rec) == rec[2] = 4 /\ Len(rec) >= 9
IsHid(rec) == IsInterface(rec) /\ rec[6] = 3
\* An Endpoint record of an endpoint other than endpoint 0: IN with the top
\* bit of the address set, OUT with it clear.
IsIn(rec) == rec[2] = 5 /\ Len(rec) >= 7 /\ rec[3] > 128
IsOut(rec) == rec[2] = 5 /\ Len(rec) >= 7 /\ rec[3] < 128 /\ rec[3] > 0

\* Device, Config, one HID Interface, then one IN and one OUT Endpoint.
WellFormed(recs) ==
    /\ Len(recs) = 5
    /\ recs[1][2] = 1 /\ Len(recs[1]) = 18
    /\ recs[2][2] = 2
    /\ IsHid(recs[3])
    /\ \/ IsIn(recs[4]) /\ IsOut(recs[5])
       \/ IsOut(recs[4]) /\ IsIn(recs[5])

\* C23: on a well-formed stream (Device, Config, one HID Interface, one IN
\* and one OUT Endpoint) Device returns a device and no error; the device
\* has the vendor, product and revision of the Device record, the number,
\* subclass and protocol of the Interface record, the addresses and packet
\* sizes of the two Endpoint records, and on /dev/bus/usb/003/005 Bus 3 and
\* Device 5.
C23_WellFormedStreamYieldsDevice ==
    (wPc = "done" /\ Framed(wBytes) /\ WellFormed(RecordsOf(wBytes)))
        => LET recs == RecordsOf(wBytes)
               in == IF IsIn(recs[4]) THEN recs[4] ELSE recs[5]
               out == IF IsIn(recs[4]) THEN recs[5] ELSE recs[4]
               d == wRet.dev
           IN  /\ wRet.err = "nil"
               /\ ~d.nil
               /\ d.info.VendorID = recs[1][9] + 256 * recs[1][10]
               /\ d.info.ProductID = recs[1][11] + 256 * recs[1][12]
               /\ d.info.Revision = recs[1][13] + 256 * recs[1][14]
               /\ d.info.Interface = recs[3][3]
               /\ d.info.SubClass = recs[3][7]
               /\ d.info.Protocol = recs[3][8]
               /\ d.endpointIn = in[3]
               /\ d.inputPacketSize = in[5] + 256 * in[6]
               /\ d.endpointOut = out[3]
               /\ d.outputPacketSize = out[5] + 256 * out[6]
               /\ wPath[1].name = "dev" => d.info.Bus = 3 /\ d.info.Device = 5

C23_Witness ==
    /\ wPc = "done"
    /\ Framed(wBytes) /\ WellFormed(RecordsOf(wBytes))
    /\ wPath[1].name = "dev"
    /\ wRet.err = "nil"
    /\ wRet.dev.info.VendorID = elgatoVendorID
    /\ wRet.dev.info.ProductID = 108
    /\ wRet.dev.info.Bus = 3 /\ wRet.dev.info.Device = 5
    /\ wRet.dev.endpointIn = 129 /\ wRet.dev.endpointOut = 2
    /\ wRet.dev.inputPacketSize = 512 /\ wRet.dev.outputPacketSize = 1024

\* C24: a stream with a record whose declared length is below 2 or exceeds
\* the bytes that remain makes Device return an error and no device.
C24_BadLengthIsError ==
    (wPc = "done" /\ ~Framed(wBytes)) => wRet.err \notin {"nil", "none"} /\ wRet.dev.nil

\* The short read came after a HID interface had both its endpoints.
C24_Witness ==
    /\ wPc = "done"
    /\ ~Framed(wBytes)
    /\ wRet.err = "short read"
    /\ wRet.dev.nil
    /\ ~device.nil
    /\ device.endpointIn # 0 /\ device.endpointOut # 0

\* C25: when Device returns a device, it is built from the first HID
\* Interface record of the file; later Interface records do not change it.
C25_FirstHidInterfaceWins ==
    (wPc = "done" /\ wRet.err = "nil" /\ ~wRet.dev.nil)
        => LET recs == RecordsOf(wBytes)
               hids == {i \in 1..Len(recs) : IsHid(recs[i])}
               first == CHOOSE i \in hids : \A j \in hids : i <= j
           IN  /\ wRet.dev.info.Interface = recs[first][3]
               /\ wRet.dev.info.SubClass = recs[first][7]
               /\ wRet.dev.info.Protocol = recs[first][8]

\* The Endpoint records of recs, and the first of them after position h
\* whose address has the high bit set (in) or clear (~in); 0 when none has.
IsEndpoint(rec) == rec[2] = 5 /\ Len(rec) >= 7

FirstEndpoint(recs, h, in) ==
    LET eps == { i \in (h + 1)..Len(recs) :
                   IsEndpoint(recs[i]) /\ ((recs[i][3] >= 128) <=> in) }
    IN  IF eps = {} THEN 0
        ELSE recs[CHOOSE i \in eps : \A j \in eps : i <= j][3]

\* C32: in a file with one Interface record, a HID one, the device's IN
\* endpoint is the first Endpoint record after it whose address has the high
\* bit set (0x80..0xFF) and its OUT endpoint the first whose address has the
\* high bit clear; later Endpoint records neither clear nor replace them.
C32_FirstEndpointsKept ==
    (wPc = "done" /\ wRet.err = "nil" /\ ~wRet.dev.nil)
        => LET recs == RecordsOf(wBytes)
               ifs == {i \in 1..Len(recs) : IsInterface(recs[i])}
           IN  Cardinality(ifs) = 1
                   => LET h == CHOOSE i \in ifs : TRUE
                      IN  /\ wRet.dev.endpointIn = FirstEndpoint(recs, h, TRUE)
                          /\ wRet.dev.endpointOut = FirstEndpoint(recs, h, FALSE)

\* The HID interface at recs[i] is followed, before the next Interface
\* record, by an IN and an OUT Endpoint record.
Completed(recs, i) ==
    /\ IsHid(recs[i])
    /\ \E j, k \in (i + 1)..Len(recs) :
          /\ IsIn(recs[j]) /\ IsOut(recs[k])
          /\ \A m \in (i + 1)..max(j, k) : ~IsInterface(recs[m])

\* C26: a non-HID Interface record discards the candidate under
\* construction: a file whose last Interface record is non-HID, and in which
\* no HID interface was followed by both its endpoints, yields no device.
C26_NonHidDiscardsCandidate ==
    (wPc = "done" /\ wRet.err = "nil")
        => LET recs == RecordsOf(wBytes)
               ifs == {i \in 1..Len(recs) : IsInterface(recs[i])}
           IN  (/\ ifs # {}
                /\ \E i \in ifs : (\A j \in ifs : j <= i) /\ ~IsHid(recs[i])
                /\ \A i \in ifs : ~Completed(recs, i))
                   => wRet.dev.nil

(***************************************************************************)
(* OpenPath properties (checked under SpecOpen).                           *)
(***************************************************************************)
\* The enumerated devices with Elgato's vendor id and a product id of the
\* table.
Supported ==
    { i \in 1..Len(found.devices) :
        /\ found.devices[i].VendorID = elgatoVendorID
        /\ \E k \in 1..Len(deviceTypes) :
              found.devices[i].ProductID = deviceTypes[k].ProductID }

\* C27: OpenPath returns no device and no error exactly when enumeration
\* succeeded and no enumerated device has Elgato's vendor id and a product
\* id of the table; every error comes with no device; a returned device is
\* the first supported one, bound to the first row with its product id.
C27_NoDeviceIffNoMatch ==
    oPc = "done"
        => /\ (oRet.err = "nil" /\ oRet.dev = NoODev)
                <=> (~found.err /\ Supported = {})
           /\ oRet.err # "nil" => oRet.dev = NoODev
           /\ oRet.dev # NoODev
                => /\ oRet.dev.d \in Supported
                   /\ \A i \in Supported : oRet.dev.d <= i
                   /\ deviceTypes[oRet.dev.dt].ProductID
                        = found.devices[oRet.dev.d].ProductID
                   /\ \A k \in 1..(oRet.dev.dt - 1) :
                        deviceTypes[k].ProductID
                            # found.devices[oRet.dev.d].ProductID

\* OpenPath returned the second enumerated device, a Plus, after another
\* vendor's device that has the product id of a Stream Deck.
C27_Witness ==
    /\ oPc = "done"
    /\ oRet.err = "nil"
    /\ oRet.dev = [d |-> 2, dt |-> 7]
    /\ found.devices[1].VendorID # elgatoVendorID
    /\ found.devices[1].ProductID = deviceTypes[1].ProductID

(***************************************************************************)
(* Transport properties (checked under SpecUsb).                           *)
(***************************************************************************)
\* Positions inside USB.Open after the file was opened, and inside USB.Close.
ClaimPcs == {"claim1", "claim2"}
ClosePcs == {"c_lock", "c_check", "rel1", "rel2", "c_file"}

\* The calls that run USB.Open: Open itself, and OpenPath through open.
OpenOps == {"Open", "OpenPath"}

\* The step is one of goroutine t.
StepOf(t) == upc'[t] # upc[t] \/ uframe'[t] # uframe[t]

\* C11: an Open that finds u.f already set returns ErrDeviceAlreadyConnected
\* with u.f and the open files as they were and no ioctl issued; a file is
\* opened only while u.f is nil and no file of the handle is open, so of two
\* concurrent Open calls at most one opens the file and the handle never has
\* two files open.
C11_OpenAtMostOnce ==
    [][/\ \A t \in UsbThreads :
            (upc[t] = "o_check" /\ StepOf(t) /\ uf # NilFile)
                => /\ upc'[t] = "idle"
                   /\ uframe'[t].ret = "ErrDeviceAlreadyConnected"
                   /\ uf' = uf
                   /\ openFds' = openFds
                   /\ lastSys' = NoSyscall
       /\ \A t \in UsbThreads :
            (uframe[t].op \in OpenOps /\ StepOf(t) /\ openFds' # openFds)
                => /\ uf = NilFile
                   /\ openFds = {}
       /\ Cardinality(openFds') <= 1]_vars

C11_Witness ==
    \E t \in UsbThreads : \E u \in UsbThreads \ {t} :
        /\ upc[t] = "idle"
        /\ uframe[t].op = "Open"
        /\ uframe[t].ret = "ErrDeviceAlreadyConnected"
        /\ uframe[u].op = "Open"
        /\ upc[u] \in ClaimPcs
        /\ openFds = {uf}

\* C12: every step that ends a Close which found the file open leaves u.f
\* nil and that file closed, and returns the release error when a release
\* ioctl failed.
C12_CloseAlwaysCloses ==
    [][\A t \in UsbThreads :
        (upc[t] \in ClosePcs /\ upc'[t] = "idle" /\ uf # NilFile)
            => /\ uf' = NilFile
               /\ uf \notin openFds'
               /\ fMx' = NoThread
               /\ uframe[t].relErr => uframe'[t].ret = "errno"]_vars

C12_Witness ==
    \E t \in UsbThreads :
        /\ upc[t] = "idle"
        /\ uframe[t].op = "Close"
        /\ uframe[t].ret = "errno"
        /\ uf = NilFile
        /\ openFds = {}

\* C13: a Close that finds u.f nil returns nil at once: no ioctl is issued
\* and u.f and the open files stay as they were.
C13_CloseIdempotent ==
    [][\A t \in UsbThreads :
        (upc[t] = "c_check" /\ StepOf(t) /\ uf = NilFile)
            => /\ upc'[t] = "idle"
               /\ uframe'[t].ret = "nil"
               /\ lastSys' = NoSyscall
               /\ uf' = uf
               /\ openFds' = openFds
               /\ fMx' = NoThread]_vars

C13_Witness ==
    \E t \in UsbThreads :
        /\ upc[t] = "idle"
        /\ uframe[t].op = "Close"
        /\ uframe[t].closed
        /\ uframe[t].ret = "nil"
        /\ uf = NilFile

\* C14: a Device.Close called after a Device.Close that returned nil, the
\* handle still closed, issues no ioctl and returns nil.
C14_SecondCloseNoOp ==
    [][\A t \in UsbThreads :
        (uframe[t].op = "DeviceClose" /\ uframe[t].closed /\ StepOf(t)
         /\ uf = NilFile)
            => /\ lastSys' = NoSyscall
               /\ upc'[t] = "idle" => uframe'[t].ret = "nil"]_vars

\* C15: no ioctl syscall is issued by a call whose context was already
\* cancelled: not by a transfer, a claim step or a release step.
C15_CancelledNoSyscall ==
    [][lastSys' # NoSyscall => ~uframe[lastSys'.thread].ctx]_vars

C15_Witness ==
    \E t \in UsbThreads : \E u \in UsbThreads \ {t} :
        /\ upc[t] = "idle"
        /\ uframe[t].op = "Open"
        /\ uframe[t].ctx
        /\ uframe[t].ret = "nil"
        /\ upc[u] = "idle"
        /\ uframe[u].op \in TransferOps
        /\ uframe[u].ctx

\* C16: a Read, Write or SendFeatureReport called with a cancelled context
\* returns the cancellation error.
C16_CancelledReturnsError ==
    [][\A t \in UsbThreads :
        (uframe[t].op \in TransferOps /\ uframe[t].ctx /\ upc[t] # "idle"
         /\ upc'[t] = "idle")
            => uframe'[t].ret = "ctx.Err"]_vars

\* C17: every transfer syscall that uses a descriptor of the handle is issued
\* while that descriptor is open.
C17_NoSyscallOnClosedFile ==
    [][(/\ lastSys' # NoSyscall
        /\ lastSys'.req \in {"USBDevFSBulk", "USBDevFSControl"}
        /\ lastSys'.fd # BadFd)
            => lastSys'.open]_vars

(***************************************************************************)
(* Properties of the background loops (checked under SpecLoop).            *)
(***************************************************************************)
\* C18: once StreamDeck.Close has cancelled the context, both loops can still
\* come to an end: the polling loop is never left blocked in `ch <- i` with
\* the dispatch loop, its only receiver, already returned.
C18_LoopsTerminate ==
    ~(cancelCalled /\ pc[Dispatch] = "returned" /\ pollPc = "send")

\* The indices i in [0, buttonCount) whose report byte at ButtonOffset+i is
\* 1, in ascending order.
PressedIndices(t, states) ==
    SelectSeq([k \in 1..ButtonCount(t) |-> k - 1],
              LAMBDA i : states[t.ButtonOffset + i] = 1)

\* got is the head of w.
IsPrefix(g, w) == Len(g) <= Len(w) /\ \A k \in 1..Len(g) : g[k] = w[k]

\* While a report is scanned, the dispatch loop has received a head of its
\* pressed indices, and the index being sent is the one that follows.
DeliveredInOrder ==
    pollPc \in {"scan", "send"} =>
        LET want == PressedIndices(deviceTypes[pollDev], poll.states) IN
        /\ IsPrefix(got, want)
        /\ pollPc = "send" => /\ Len(got) < Len(want)
                              /\ poll.i = want[Len(got) + 1]

\* C19: of each report the polling loop sends exactly the indices whose byte
\* at ButtonOffset+i is 1, in ascending order; each send hands that index to
\* the dispatch loop, and the scan of a report ends only when all of them
\* were received, so reports are delivered one after the other.
C19_PressOrder ==
    [][/\ DeliveredInOrder
       /\ DeliveredInOrder'
       /\ (pollPc = "send" /\ pollPc' # "send")
            => /\ pc[Dispatch] = "recv"
               /\ disp'.index = poll.i
               /\ got' = Append(got, poll.i)
       /\ (pollPc = "scan" /\ pollPc' = "select")
            => got = PressedIndices(deviceTypes[pollDev], poll.states)]_vars

C19_Witness ==
    /\ pollPc = "scan"
    /\ got = <<0, ButtonCount(deviceTypes[pollDev]) - 1>>
    /\ poll.i = ButtonCount(deviceTypes[pollDev])
    /\ ~cancelCalled
    /\ pc[Dispatch] # "returned"

\* C22: in the polling loop a read that fails with a time-out sends nothing
\* and goes back to the select of the next iteration; a read that fails
\* otherwise ends the loop with that error; a read of zero bytes ends the
\* loop with a nil error.
C22_ReadOutcomes ==
    [][(pollPc = "read_sys" /\ pollPc' # "read_sys")
          => /\ lastRead' = "timed out"
                  => /\ pollPc' = "select"
                     /\ pollRet' = "none"
                     /\ got' = got /\ disp' = disp /\ pc' = pc
             /\ lastRead' = "errno"
                  => /\ pollPc' = "returned"
                     /\ pollRet' = "errno"
                     /\ disp' = disp /\ pc' = pc
             /\ lastRead' = "zero"
                  => /\ pollPc' = "returned"
                     /\ pollRet' = "nil"
                     /\ disp' = disp /\ pc' = pc
             /\ lastRead' = "data" => pollPc' = "scan"]_vars

\* A read timed out after an earlier report had a press dispatched, and the
\* loop is at its next select.
C22_Witness ==
    /\ lastRead = "timed out"
    /\ pollPc = "select"
    /\ pollRet = "none"
    /\ disp.calls # <<>>

\* C20: the handler's result does not matter to the dispatch loop: every
\* invocation is followed by the next receive, a press found Awake with a
\* handler is passed to it also after a handler returned an error, and the
\* loop returns only once the context is cancelled.
C20_HandlerErrorNotFatal ==
    [][/\ (pc[Dispatch] = "d_invoke" /\ pc'[Dispatch] # "d_invoke")
            => /\ pc'[Dispatch] = "recv"
               /\ disp'.calls = <<<<disp.handler, disp.index>>>>
       /\ (/\ handlerErred
           /\ pc[Dispatch] = "d_check" /\ pc'[Dispatch] # "d_check"
           /\ ~isSleeping
           /\ disp.handler # NoHandler)
            => pc'[Dispatch] = "d_invoke"
       /\ (pc[Dispatch] # "returned" /\ pc'[Dispatch] = "returned")
            => cancelCalled]_vars

C20_Witness ==
    /\ invokedAfterErr
    /\ pc[Dispatch] = "recv"
    /\ disp.calls # <<>>
    /\ ~cancelCalled

(***************************************************************************)
(* Properties of the claim and release sequences and of Device.Close       *)
(* (checked under SpecUsb).                                                *)
(***************************************************************************)
\* C31: unsafeClaim issues the disconnect ioctl and then the claim ioctl,
\* unsafeRelease the release ioctl and then the reconnect ioctl; when the
\* first ioctl of either returns -1 the second is not issued and the error
\* is what the sequence returns.
C31_ClaimReleaseInOrder ==
    [][\A t \in UsbThreads :
        /\ (upc[t] = "claim1" /\ upc'[t] # "claim1")
              => /\ ~uframe[t].ctx =>
                        (lastSys'.thread = t /\ lastSys'.req = "USBDevFSDisconnect")
                 /\ IF lastSys'.failed
                    THEN upc'[t] = "idle" /\ uframe'[t].ret = "errno"
                    ELSE upc'[t] = "claim2"
        /\ (upc[t] = "claim2" /\ upc'[t] # "claim2")
              => /\ ~uframe[t].ctx =>
                        (lastSys'.thread = t /\ lastSys'.req = "USBDevFSClaim")
                 /\ IF lastSys'.failed
                    THEN upc'[t] = "idle" /\ uframe'[t].ret = "errno"
                    ELSE IF uframe[t].op = "OpenPath"
                    THEN upc'[t] = "io"
                    ELSE upc'[t] = "idle" /\ uframe'[t].ret = "nil"
        /\ (upc[t] = "rel1" /\ upc'[t] # "rel1")
              => /\ ~uframe[t].ctx =>
                        (lastSys'.thread = t /\ lastSys'.req = "USBDevFSRelease")
                 /\ IF lastSys'.failed
                    THEN upc'[t] = "c_file" /\ uframe'[t].relErr
                    ELSE upc'[t] = "rel2" /\ ~uframe'[t].relErr
        /\ (upc[t] = "rel2" /\ upc'[t] # "rel2")
              => /\ ~uframe[t].ctx =>
                        (lastSys'.thread = t /\ lastSys'.req = "USBDevFSConnect")
                 /\ upc'[t] = "c_file"
                 /\ uframe'[t].relErr = lastSys'.failed
        /\ (upc[t] = "c_file" /\ upc'[t] # "c_file" /\ uframe[t].relErr)
              => uframe'[t].ret = "errno"
        /\ (lastSys'.thread = t /\ lastSys'.req = "USBDevFSClaim")
              => upc[t] = "claim2"
        /\ (lastSys'.thread = t /\ lastSys'.req = "USBDevFSConnect")
              => upc[t] = "rel2"
        /\ (upc'[t] = "claim2" /\ upc[t] # "claim2") => upc[t] = "claim1"
        /\ (upc'[t] = "rel2" /\ upc[t] # "rel2") => upc[t] = "rel1"]_vars

\* The disconnect ioctl of an Open failed and Open returned its error; no
\* claim ioctl was issued.
C31_Witness ==
    \E t \in UsbThreads :
        /\ lastSys.thread = t
        /\ lastSys.req = "USBDevFSDisconnect"
        /\ lastSys.failed
        /\ upc[t] = "idle"
        /\ uframe[t].op = "Open"
        /\ uframe[t].ret = "errno"
        /\ uf # NilFile

\* The step issued the ioctl req for goroutine t, and the ioctl did not fail.
Issued(t, req) ==
    lastSys'.thread = t /\ lastSys'.req = req /\ ~lastSys'.failed

\* C35: a Device.Close goes from its reset on to its full-brightness
\* transfer, from there on to the transport's Close, and inside it from the
\* release on to the reconnect and on to closing the file, only by a step
\* that has sent what comes first: a Close that returns nil has sent the reset
\* packet, the brightness packet, the release and the reconnect, in that
\* order.
C35_CloseSendsInOrder ==
    [][\A t \in UsbThreads :
        uframe[t].op = "DeviceClose"
            => /\ (uframe[t].stage = "Reset" /\ uframe'[t].stage = "SetBrightness")
                    => Issued(t, "USBDevFSControl")
               /\ (uframe[t].stage = "SetBrightness" /\ uframe'[t].stage = "Close")
                    => Issued(t, "USBDevFSControl")
               /\ (upc[t] = "rel1" /\ upc'[t] = "rel2")
                    => Issued(t, "USBDevFSRelease")
               /\ (upc[t] = "rel2" /\ upc'[t] = "c_file" /\ ~uframe'[t].relErr)
                    => Issued(t, "USBDevFSConnect")]_vars

\* C36: when the reset transfer or the full-brightness transfer of a
\* Device.Close fails, Close returns that error at that step, without entering
\* the transport's Close: the file is not closed and USB.f is left as it was.
C36_FailedCloseLeavesOpen ==
    [][\A t \in UsbThreads :
        (/\ uframe[t].op = "DeviceClose"
         /\ uframe[t].stage \in {"Reset", "SetBrightness"}
         /\ lastSys'.thread = t
         /\ lastSys'.failed)
            => /\ upc'[t] = "idle"
               /\ uframe'[t].ret = "errno"
               /\ uf' = uf
               /\ openFds' = openFds
               /\ fMx' = fMx]_vars

\* A Device.Close has just returned the error of its reset or brightness transfer,
\* issued on the open file, and the file is still open.
C36_Witness ==
    \E t \in UsbThreads :
        /\ uframe[t].op = "DeviceClose"
        /\ upc[t] = "idle"
        /\ uframe[t].ret = "errno"
        /\ lastSys.thread = t
        /\ lastSys.req = "USBDevFSControl"
        /\ lastSys.failed
        /\ lastSys.open
        /\ uf # NilFile
        /\ uf \in openFds

\* C37: a failed open leaves the file as it is. The step in which an ioctl of
\* the claim sequence fails inside Open, and the step in which the transfer
\* of the initial Reset fails inside OpenPath, return the error with u.f and
\* the open files unchanged; and an Open that finds u.f set returns
\* ErrDeviceAlreadyConnected.
C37_FailedOpenKeepsFile ==
    [][\A t \in UsbThreads :
        /\ (/\ uframe[t].op \in OpenOps
            /\ upc[t] \in ClaimPcs
            /\ lastSys'.thread = t
            /\ lastSys'.failed)
              => /\ upc'[t] = "idle"
                 /\ uframe'[t].ret = "errno"
                 /\ uf' = uf
                 /\ openFds' = openFds
        /\ (/\ uframe[t].op = "OpenPath"
            /\ upc[t] = "io_sys"
            /\ lastSys'.thread = t
            /\ lastSys'.failed)
              => /\ upc'[t] = "idle"
                 /\ uframe'[t].ret = "errno"
                 /\ uf' = uf
                 /\ openFds' = openFds
        /\ (/\ uframe[t].op \in OpenOps
            /\ upc[t] = "o_check"
            /\ StepOf(t)
            /\ uf # NilFile)
              => /\ upc'[t] = "idle"
                 /\ uframe'[t].ret = "ErrDeviceAlreadyConnected"]_vars

\* OpenPath has just returned the error of its Reset, sent on the file Open
\* had opened, and the file is still open and u.f still set.
C37_Witness ==
    \E t \in UsbThreads :
        /\ uframe[t].op = "OpenPath"
        /\ upc[t] = "idle"
        /\ uframe[t].ret = "errno"
        /\ lastSys.thread = t
        /\ lastSys.req = "USBDevFSControl"
        /\ lastSys.failed
        /\ lastSys.open
        /\ uf # NilFile
        /\ uf \in openFds

(***************************************************************************)
(* Controller properties (checked under Spec: calls issued one at a time). *)
(***************************************************************************)
\* Positions inside a SetSleeping call (ToggleSleep included).
SleepPcs == {"ss_load", "ss_apply", "ss_store", "ts_ret"}
SleepOps == {"SetSleeping", "ToggleSleep"}

\* No goroutine is inside a Controller call.
Quiescent == \A t \in Threads : pc[t] \notin CallPcs

\* The call of t returns in this step.
Returns(t) == pc[t] \in CallPcs /\ pc'[t] \notin CallPcs

\* C1: a press the dispatch loop receives while Sleeping, whose wake-up
\* brightness call succeeds, leaves the Controller Awake and invokes no
\* handler; the next press, found Awake with a handler registered, invokes
\* that handler exactly once, with its own index.
C1_WakePressThenDispatch ==
    [][(pc[Dispatch] # "recv" /\ pc'[Dispatch] = "recv") =>
        /\ (disp'.slept = "yes" /\ frame'[Dispatch].xfer = "ok")
              => (~isSleeping' /\ disp'.calls = <<>>)
        /\ (disp'.prevWoke /\ disp'.slept = "no" /\ disp'.handler # NoHandler)
              => disp'.calls = << <<disp'.handler, disp'.index>> >>]_vars

C1_Witness ==
    /\ pc[Dispatch] = "recv"
    /\ disp.prevWoke
    /\ disp.slept = "no"
    /\ disp.index = 1
    /\ disp.calls = << <<"h1", 1>> >>

\* C21: the handler a press is passed to is the one the dispatch loop reads
\* from s.pressHandler after receiving the press; found Awake, the press goes
\* to that handler once, with the received index, or is dropped when it is
\* nil, and the loop goes on to the next receive.
C21_AwakePressInvokesHandler ==
    [][/\ (pc[Dispatch] = "d_handler" /\ pc'[Dispatch] # "d_handler")
            => /\ disp'.handler = pressHandler
               /\ disp'.index = disp.index
       /\ (pc[Dispatch] = "d_check" /\ pc'[Dispatch] # "d_check" /\ ~isSleeping)
            => IF disp.handler = NoHandler
               THEN pc'[Dispatch] = "recv" /\ disp'.calls = <<>>
               ELSE pc'[Dispatch] = "d_invoke"
       /\ (pc[Dispatch] = "d_invoke" /\ pc'[Dispatch] # "d_invoke")
            => /\ disp'.calls = <<<<disp.handler, disp.index>>>>
               /\ disp.handler # NoHandler
               /\ pc'[Dispatch] = "recv"
       /\ Len(disp'.calls) <= 1]_vars

C21_Witness ==
    /\ pc[Dispatch] = "recv"
    /\ disp.slept = "no"
    /\ disp.calls = <<<<"h2", MaxPressIndex>>>>
    /\ pressHandler = "h2"

\* C2: no step of a SetSleeping call, successful or failed, changes the
\* target brightness.
C2_SetSleepingKeepsTarget ==
    [][(\E t \in Threads : pc[t] \in SleepPcs \/ pc'[t] \in SleepPcs)
        => brightness' = brightness]_vars

C2_Witness ==
    /\ pc["app"] = "idle"
    /\ frame["app"].op = "SetSleeping"
    /\ frame["app"].sleeping
    /\ frame["app"].ret = "nil"
    /\ isSleeping
    /\ applied = BrightnessMin
    /\ brightness = 40

C29_AwakeAppliedIsTarget ==
    (/\ Quiescent
     /\ pc[Dispatch] = "recv"
     /\ ~isSleeping
     /\ applied # NoPacket) => applied = brightness

\* C30: a SetBrightness(v), v > 0, and a SetSleeping(true) that overlap can
\* both return nil and leave the Controller Sleeping with target v and v
\* applied, and a SetBrightness and a SetSleeping(false) that overlap can
\* leave it Awake with an applied brightness that is not the target; neither
\* outcome is reached unless two calls overlapped.
C30_OutcomeOnlyWhenCallsOverlap ==
    (SleepingLit \/ AwakeStale) => "Overlap" \in seen

\* Both outcomes were reached: the Controller was left Awake with a stale
\* brightness before, and is now Sleeping with 40 as target and applied.
C30_Witness ==
    /\ SleepingLit
    /\ brightness = 40
    /\ applied = 40
    /\ "AwakeStale" \in seen

TextureFunc == deviceTypes[devType].ImageTextureFunc

\* Packet size P and header size H of each framing function.
FramingP ==
    [imageTextureGen1 |-> 8191, imageTextureMini |-> 1024, imageTextureGen2 |-> 1024]
FramingH ==
    [imageTextureGen1 |-> 16, imageTextureMini |-> 16, imageTextureGen2 |-> 8]

\* The last-page flag of a packet: byte 3 (Gen2) or byte 4 (Gen1, Mini).
LastPageFlag(pkt) == IF TextureFunc = "imageTextureGen2" THEN pkt[4] ELSE pkt[5]

\* C7: SetButton rejects every index outside [0, buttonCount) with the
\* invalid-index error and writes no packet, and accepts buttonCount - 1.
C7_IndexOutsideRangeRejected ==
    imgPc # "idle" =>
        /\ (btnIndex < 0 \/ btnIndex >= ButtonCount(deviceTypes[devType]))
              => (imgRet = "err_index" /\ attempts = 0 /\ Len(written) = 0)
        /\ btnIndex = ButtonCount(deviceTypes[devType]) - 1 => imgRet # "err_index"

\* C8: every packet handed to the write function is exactly P bytes; bytes
\* [H, P) of the packets written, concatenated in write order, reproduce the
\* buffer byte for byte; when the transfer returns nil they cover the whole
\* buffer, and the payload of the final packet past the buffer's end is zero.
C8_FramingReassembles ==
    (imgPc # "idle" /\ imgRet # "err_index") =>
        LET P  == FramingP[TextureFunc]
            H  == FramingH[TextureFunc]
            n  == Len(written)
            L  == Len(buffer)
            covered == IF L < n * (P - H) THEN L ELSE n * (P - H)
        IN  /\ Len(payload) = P
            /\ \A k \in 1..n : Len(written[k]) = P
            /\ \A i \in 0..(covered - 1) :
                    written[(i \div (P - H)) + 1][H + (i % (P - H)) + 1] = buffer[i + 1]
            /\ imgRet = "nil" =>
                /\ n * (P - H) >= L
                /\ n > 0 =>
                    \A j \in (H + L - (n - 1) * (P - H))..(P - 1) : written[n][j + 1] = 0

C8_Witness ==
    /\ imgRet = "nil"
    /\ TextureFunc = "imageTextureGen1"
    /\ Len(buffer) = 2 * 8175 + 1
    /\ buffer[1] = 1
    /\ Len(written) = 3

\* C9: a transfer that returns nil, whatever the buffer's length (0
\* included), has written exactly one packet whose last-page flag is set,
\* and that packet is the last one written.
C9_ExactlyOneLastPage ==
    imgRet = "nil" =>
        /\ Len(written) >= 1
        /\ LastPageFlag(written[Len(written)]) = 1
        /\ \A k \in 1..(Len(written) - 1) : LastPageFlag(written[k]) = 0

\* C28: SetButton with a nil or an empty (zero-length) image and a valid
\* index transfers the blank image: when it returns nil, the buffer that
\* was transferred is the blank image and at least one packet was written.
C28_BlankForNilOrEmptyImage ==
    (imgRet = "nil" /\ (rawNil \/ buffer = <<>>))
        => (buffer = blankImage /\ Len(written) >= 1)

\* C10: a write that fails ends the transfer at once with that error: the
\* packets written before stay written, and no packet is written afterwards.
C10_WriteFailureAborts ==
    [][/\ (attempts' = attempts + 1 /\ written' # Append(written, payload'))
            => (written' = written /\ imgRet' = "err_write" /\ imgPc' = "done")
       /\ imgRet = "err_write"
            => ((attempts' = attempts /\ written' = written) \/ imgPc' = "idle")]_vars

C10_Witness ==
    /\ imgRet = "err_write"
    /\ imgPc = "done"
    /\ attempts = 2
    /\ Len(written) = 1


====
